---- MODULE Spec2Model ----
(***************************************************************************)
(* Krustacean: transparent L4 port forwarder.                              *)
(* State machine of the Action Bus (tokio watch channel), the Supervisor,  *)
(* the signal handler, the UDP and TCP forwarders and their relay tasks.   *)
(***************************************************************************)
EXTENDS Integers, FiniteSets, Sequences, Bags, TLC

\* ------------------------------------------------------------------ bounds
\* CONN_BACKLOG is 100 in the source (handlers/constants.rs:16); the model
\* scales the semaphore down so that the overflow case is reachable.
CONN_BACKLOG == 1
\* cap on the TCP forwarder's JoinSet (unbounded in the source)
MaxTcpTasks == 1
\* datagrams the kernel queues on the UDP listen socket
MaxQueue == 1
\* DRAIN_DURATION (5 s) counted in clock ticks
DRAIN_TICKS == 1
\* SIGHUPs the environment delivers in one run
MaxReloads == 1

\* SIGHUPs delivered in one run when no client sends anything
MaxQuietReloads == 2

\* datagrams on the UDP listen socket when clients send in bursts
MaxBurst == 2
\* BUFFER_SIZE is 4096 in the source (forwarders.rs:25); the model scales the
\* buffers down so that a longer datagram is reachable
BUFFER_SIZE == 1

\* ------------------------------------------------------------- vocabulary
UDP == "UDP forwarder"
TCP == "TCP forwarder"
SIG == "Signal handler"
Workers == {UDP, TCP, SIG}
Forwarders == {UDP, TCP}

Signals == {"SIGINT", "SIGTERM", "SIGQUIT", "SIGHUP"}

NoUpstream == <<>>

\* Forwarders entries of the configuration file: upstream_ip, upstream_port, orig_port
Entry(ip, up, orig) == [upstream_ip |-> ip, upstream_port |-> up, orig_port |-> orig]

\* struct Configs: the parsed file; udp and tcp are HashSets of entries
Configs(port, udp, tcp) == [port |-> port, udp |-> udp, tcp |-> tcp]

\* the configuration the process is started with
StartConfig == Configs(1, {Entry(1, 1, 1)}, {Entry(1, 1, 1)})

\* a configuration with two UDP entries for one orig_port
TwiceConfig == Configs(1, {Entry(1, 1, 1), Entry(2, 1, 1)}, {Entry(1, 1, 1)})

\* a configuration with another listen port
PortConfig == Configs(2, {Entry(1, 1, 1)}, {Entry(1, 1, 1)})

\* a configuration with that other listen port and another upstream
BothConfig == Configs(2, {Entry(2, 1, 1)}, {Entry(2, 1, 1)})

\* a file whose udp and tcp lists redirect different ports to different upstreams
SplitConfig == Configs(1, {Entry(1, 1, 1)}, {Entry(2, 2, 2)})

\* configurations the file can hold
FileConfigs == {StartConfig, TwiceConfig, PortConfig, BothConfig, SplitConfig}

\* the path's state on disk: absent, not a regular file, a file that cannot be
\* read, a file that does not parse, or a file holding a configuration
File(kind, cfg) == [kind |-> kind, cfg |-> cfg]
NoFile == File("absent", Configs(0, {}, {}))
Directory == File("dir", Configs(0, {}, {}))
Garbage == File("garbage", Configs(0, {}, {}))
Unreadable == File("unreadable", Configs(0, {}, {}))
Files == {File("json", c) : c \in FileConfigs} \cup {NoFile, Directory, Garbage, Unreadable}

\* Path::exists
exists(path) == path.kind # "absent"

\* Path::is_file
is_file(path) == path.kind \in {"garbage", "unreadable", "json"}

\* tokio::fs::read_to_string: whether the file's text can be read
read_to_string(path) == path.kind \in {"garbage", "json"}

\* serde_json::from_str of the file's text: whether it is a Configs
from_str(path) == path.kind = "json"

\* (fault) a read that reports success whatever the path holds
read_config_lenient(path) == [err |-> "", cfg |-> path.cfg]

\* (fault) a read that tests for a regular file before it tests for existence
read_config_file_first(path) ==
    IF ~is_file(path) THEN [err |-> "InvalidInput", cfg |-> path.cfg]
    ELSE IF ~exists(path) THEN [err |-> "NotFound", cfg |-> path.cfg]
    ELSE IF ~read_to_string(path) THEN [err |-> "PermissionDenied", cfg |-> path.cfg]
    ELSE IF ~from_str(path) THEN [err |-> "InvalidData", cfg |-> path.cfg]
    ELSE [err |-> "", cfg |-> path.cfg]

\* read_config: the error kind, or the parsed Configs
read_config(path) ==
    IF ~exists(path) THEN [err |-> "NotFound", cfg |-> path.cfg]
    ELSE IF ~is_file(path) THEN [err |-> "InvalidInput", cfg |-> path.cfg]
    ELSE IF ~read_to_string(path) THEN [err |-> "PermissionDenied", cfg |-> path.cfg]
    ELSE IF ~from_str(path) THEN [err |-> "InvalidData", cfg |-> path.cfg]
    ELSE [err |-> "", cfg |-> path.cfg]

\* the HashMaps that iterating the HashSet of entries and collecting
\* (orig_port, (upstream_ip, upstream_port)) can build: of the entries that
\* share an orig_port the one iterated last stays, and the iteration order of a
\* HashSet is not fixed
MapFrom(entries) ==
    LET keys == {e.orig_port : e \in entries}
        winners == [keys -> entries]
    IN  { [p \in keys |-> <<w[p].upstream_ip, w[p].upstream_port>>] :
            w \in {x \in winners : \A p \in keys : x[p].orig_port = p} }

\* (fault) a conversion that builds each map from the other protocol's entries
RuntimeConfigsFrom_swapped(cfg) ==
    { [port |-> cfg.port, udp_map |-> u, tcp_map |-> t] :
        u \in MapFrom(cfg.tcp), t \in MapFrom(cfg.udp) }

\* RuntimeConfigs::from(&Configs): the snapshots the conversion can yield
RuntimeConfigsFrom(cfg) ==
    { [port |-> cfg.port, udp_map |-> u, tcp_map |-> t] :
        u \in MapFrom(cfg.udp), t \in MapFrom(cfg.tcp) }

\* (fault) a lookup that finds an upstream for every port
get_any(map, k) == <<1, 1>>

\* ForwarderMap::get
get(map, k) == IF k \in DOMAIN map THEN map[k] ELSE NoUpstream

\* the snapshot main builds at startup
InitialConfig == CHOOSE c \in RuntimeConfigsFrom(StartConfig) : TRUE

\* the files whose conversion can yield the snapshot the process starts with
StartFiles == {f \in Files : f.kind = "json" /\ InitialConfig \in RuntimeConfigsFrom(f.cfg)}

NoConfig == [port |-> 0, udp_map |-> <<>>, tcp_map |-> <<>>]

\* ----------------------------------------------------------------- Actions
\* enum Actions, with the payloads its users read: RELOAD's port_changed flag
\* (signal_handler.rs), the configuration c the forwarders take from INIT and
\* RELOAD (forwarders.rs), STOP's worker label.
Action(kind, flag, c, label) == [kind |-> kind, port_changed |-> flag, c |-> c, label |-> label]
INIT(c) == Action("INIT", FALSE, c, "")
RELOAD(flag, c) == Action("RELOAD", flag, c, "")
KILL == Action("KILL", FALSE, NoConfig, "")
SHUTDOWN == Action("SHUTDOWN", FALSE, NoConfig, "")
STOP(label) == Action("STOP", FALSE, NoConfig, label)
PANICKED == Action("PANICKED", FALSE, NoConfig, "")

Terminating == {"SHUTDOWN", "STOP", "KILL", "PANICKED"}

\* the signal handler's locals while it is between current_config.store and
\* tx.send_replace of a reload
Reloading(flag, c) == [publish |-> TRUE, port_changed |-> flag, new_config |-> c]
NoReload == [publish |-> FALSE, port_changed |-> FALSE, new_config |-> NoConfig]

VARIABLES
    bus,             \* value held by the watch channel
    unseen,          \* per receiver: the channel's version differs from the one it saw
    current_config,  \* ArcSwap<RuntimeConfigs>
    pending,         \* signals delivered to the process, not yet taken by the handler
    nsignals,        \* SIGHUPs delivered so far
    sig_pc,          \* signal handler: "none" (not spawned), "start", "loop", "done"
    file,            \* what the configuration path holds on disk
    applied,         \* the file contents the published snapshot was built from
    reloading,       \* the handler's new_config and port_changed between store and send
    udp_pc,          \* UDP forwarder: "none", "start", "loop", "drain", "done"
    udp_port,        \* its current port
    udp_fd,          \* its listen socket
    udp_f,           \* the socket a RELOAD has created and not yet assigned to udp_fd
    udp_map,         \* its Arc<RwLock<map>>
    semaphore,       \* available permits
    udp_tasks,       \* its JoinSet of relay tasks
    udp_force_kill,
    udp_busy,        \* its last iteration logged "busy, dropping packets"
    tcp_pc,          \* TCP forwarder: "none", "start", "loop", "drain", "done"
    tcp_port,
    listener,        \* its TcpListener
    tcp_l,           \* the listener a RELOAD has created and not yet assigned
    tcp_map,
    tcp_tasks,
    tcp_force_kill,
    elapsed,         \* per forwarder: ticks since its drain timeout was armed
    forced,          \* per forwarder: "Forced exit" was logged
    result,          \* per worker: "running", "ok", "err", "panic"
    sup_pc,          \* Supervisor (main): "startup", "join", "done"
    exit_code,       \* what main returned: "", "SUCCESS", "FAILURE"
    joined,          \* workers whose result the Supervisor has taken
    transitioned,    \* the Supervisor has published STOP or PANICKED
    rebuild_err,     \* per forwarder: its last RELOAD ended in the error! of a failed rebuild
    traffic,         \* the transport the clients of this run use ("none": no traffic)
    effective,       \* the process's effective capability set: two 32-bit bitmaps
    probe            \* what is_capable read and reported at startup

busVars == <<bus, unseen, current_config>>
sigVars == <<pending, nsignals, sig_pc, file, applied, reloading>>
udpVars == <<udp_pc, udp_port, udp_fd, udp_f, udp_map, semaphore, udp_tasks, udp_force_kill,
             udp_busy>>
tcpVars == <<tcp_pc, tcp_port, listener, tcp_l, tcp_map, tcp_tasks, tcp_force_kill>>
supVars == <<sup_pc, exit_code, joined, transitioned>>
vars == <<busVars, sigVars, udpVars, tcpVars, rebuild_err, elapsed, forced, result, supVars,
          traffic, effective, probe>>

\* ----------------------------------------------------------------- sockets
NoSocket == [port |-> 0, queue |-> <<>>, ready |-> FALSE, opts |-> {}]

\* the ports clients address their traffic to
ListenPorts == {c.port : c \in FileConfigs}

\* the kernel hands traffic for port lp to a socket bound to (LISTEN_IP, lp)
Accepts(sock, lp) == sock # NoSocket /\ sock.port = lp

\* socket addresses: msg.address of a datagram that carries no IPv4 source,
\* 0.0.0.0:0, and the address of the client
NoAddress == <<>>
Unspecified == <<0, 0>>
Client == <<9, 9>>

\* n bytes of payload
Payload(n) == [i \in 1..n |-> i]

\* what clients and upstreams send: a payload that fits a buffer and one
\* that does not
Payloads == {Payload(1), Payload(BUFFER_SIZE + 1)}

\* a datagram as the kernel holds it for recvmsg: its source address, the
\* port of its original destination, its IP_ORIGDSTADDR control message
\* ("present", "absent", or "truncated": it does not fit the control buffer),
\* its payload, and whether its checksum is good
Datagram(src, odp, cmsg, payload, sum) ==
    [src |-> src, odp |-> odp, cmsg |-> cmsg, payload |-> payload, sum |-> sum]

\* datagrams that reach the listen socket
Datagrams ==
    { Datagram(Client, 1, "present", Payload(1), TRUE),
      Datagram(Client, 2, "present", Payload(1), TRUE),
      Datagram(Client, 1, "present", Payload(BUFFER_SIZE + 1), TRUE),
      Datagram(NoAddress, 1, "present", Payload(1), TRUE),
      Datagram(Unspecified, 1, "present", Payload(1), TRUE),
      Datagram(Client, 1, "absent", Payload(1), TRUE),
      Datagram(Client, 1, "truncated", Payload(1), TRUE),
      Datagram(Client, 1, "present", Payload(1), FALSE) }

\* connections that reach the listener: original destination port (0: not retrievable)
Connections == {0, 1, 2}

\* ------------------------------------------------------------- relay tasks
\* A JoinSet is an unordered collection: a bag of task records. A record is
\* the await the task stands at, the original destination port it was spawned
\* for, whether KILL was already on the bus when it was dispatched, and the
\* task's locals: src, packet (UDP) or the bytes read from the client (TCP),
\* proxy, the datagrams queued on its upstream socket, the reply bytes. The
\* task holds a clone of the Arc of the forwarder's map, not a copy of the
\* map; `dispatched` records what the map held when the task was spawned.
Task(pc, odp, late) ==
    [pc |-> pc, odp |-> odp, late |-> late, src |-> NoAddress, packet |-> <<>>,
     dispatched |-> <<>>, proxy |-> NoUpstream, inbox |-> <<>>, reply |-> <<>>]

UdpSteps == {"lookup", "bind", "send", "recv", "reply"}
TcpSteps == {"lookup", "connect", "read", "write", "upread", "reply"}

\* how a relay task ends: it returns after its last step ("done"), it returns
\* at the lookup because the port has no upstream ("unmapped", logged), it
\* returns where a step failed or timed out ("failed", logged), or it is aborted
EndKinds == {"done", "unmapped", "failed", "cancelled"}

\* a task that has ended, by returning ("done") or by being aborted
\* ("cancelled"): its future, with all it held, is dropped; the JoinSet keeps
\* the entry until it is reaped
Ended(how) == Task(how, 0, FALSE)

\* task t moves on to step next
Step(t, next) == IF next \in EndKinds THEN Ended(next) ELSE [t EXCEPT !.pc = next]

\* the tasks of the set that have neither returned nor been aborted
Running(tasks) == {t \in BagToSet(tasks) : t.pc \notin EndKinds}

RunningBag(tasks) == [t \in Running(tasks) |-> tasks[t]]

\* how many tasks of the set are running
InFlight(tasks) == BagCardinality(RunningBag(tasks))

\* while tasks.try_join_next().is_some() {}
try_join_all(tasks) == RunningBag(tasks)

\* (fault) a set whose drop detaches its tasks
drop_detached(tasks) == tasks

\* JoinSet's drop: every task is aborted and the set is freed
drop(tasks) == EmptyBag

\* (fault) abort_all that cancels nothing
abort_none(tasks) == tasks

\* JoinSet::abort_all
abort_all(tasks) ==
    LET ended == [t \in BagToSet(tasks) \ Running(tasks) |-> tasks[t]]
        n == InFlight(tasks)
    IN  IF n = 0 THEN tasks
        ELSE ended (+) [t \in {Ended("cancelled")} |-> n]


\* ------------------------------------------------------------ Action Bus
\* the receiver of worker w exists and is still polled
Subscribed(w, pcs) == pcs[w] \in {"start", "loop"}

\* (fault) a store into the channel that marks no receiver as changed
send_silent(a, pcs) ==
    /\ bus' = a
    /\ unseen' = unseen

\* Sender::send_replace: store the value, bump the version, wake the receivers
send_replace(a, pcs) ==
    /\ bus' = a
    /\ unseen' = [w \in Workers |-> Subscribed(w, pcs)]

\* a worker returns: its receiver is dropped with it
DropReceiver(w) == unseen' = [unseen EXCEPT ![w] = FALSE]

\* every Sender is gone: the signal handler's tx and the Supervisor's
closed == sig_pc = "done" /\ sup_pc = "done"

pcOf == [w \in Workers |-> IF w = UDP THEN udp_pc ELSE IF w = TCP THEN tcp_pc ELSE sig_pc]

\* ------------------------------------------------------------ capabilities
\* linux/capability.h, through the generated bindings
CAP_NET_BIND_SERVICE == 10
CAP_NET_ADMIN == 12

\* REQUIRED_CAPS
REQUIRED_CAPS == {CAP_NET_ADMIN, CAP_NET_BIND_SERVICE}

\* a u32 bitmap is the set of its bits that are 1, bit 0 the lowest
U32Bits == 0 .. 31

\* `x >> n` on a capability number
RECURSIVE shr(_, _)
shr(x, n) == IF n = 0 THEN x ELSE shr(x \div 2, n - 1)

\* `a & b` on capability numbers
RECURSIVE and(_, _)
and(a, b) ==
    IF a = 0 \/ b = 0 THEN 0
    ELSE (a % 2) * (b % 2) + 2 * and(a \div 2, b \div 2)

\* `x << n` on a u32 bitmap: bits shifted past bit 31 are lost
shl(x, n) == {i + n : i \in x} \cap U32Bits

\* `a & b` on u32 bitmaps
mask(a, b) == a \cap b

\* cap_to_index
cap_to_index(x) == shr(x, 5)

\* cap_to_mask: 1u32 << (x & 31u32)
cap_to_mask(x) == shl({0}, and(x, 31))

\* __user_cap_data_struct::default() twice: nothing effective
NoCaps == <<{}, {}>>

\* the effective set a service manager grants: the two required capabilities
Granted == <<REQUIRED_CAPS, {}>>

\* effective sets a process can be started with (data[0].effective,
\* data[1].effective): none, one or both of the required capabilities, their
\* neighbours, the same bit positions in the second bitmap, everything, and
\* everything but one required capability
CapData ==
    { NoCaps, Granted,
      <<{CAP_NET_ADMIN}, {}>>,
      <<{CAP_NET_BIND_SERVICE}, {}>>,
      <<{CAP_NET_ADMIN - 1, CAP_NET_BIND_SERVICE + 1}, {}>>,
      <<{}, REQUIRED_CAPS>>,
      <<{CAP_NET_ADMIN}, {CAP_NET_BIND_SERVICE}>>,
      <<U32Bits, U32Bits>>,
      <<U32Bits \ {CAP_NET_ADMIN}, U32Bits>> }

\* is_capable has not run
NoProbe == [ret |-> 0, data |-> NoCaps, capable |-> FALSE, ran |-> FALSE]

\* (fault) a probe that is content with one of the required capabilities
is_capable_any(ret, eff) ==
    LET data == IF ret = 0 THEN eff ELSE NoCaps
    IN  [ret |-> ret, data |-> data, ran |-> TRUE,
         capable |-> ret = 0 /\ \E cap \in REQUIRED_CAPS :
                        mask(data[cap_to_index(cap) + 1], cap_to_mask(cap)) # {}]

\* is_capable: capget fills data (left zeroed when the call fails), and the
\* probe is Ok(true) when every required capability's bit is set
is_capable(ret, eff) ==
    LET data == IF ret = 0 THEN eff ELSE NoCaps
    IN  [ret |-> ret, data |-> data, ran |-> TRUE,
         capable |-> ret = 0 /\ \A cap \in REQUIRED_CAPS :
                        mask(data[cap_to_index(cap) + 1], cap_to_mask(cap)) # {}]

\* the process as main is entered: nothing is spawned, no socket is open; the
\* configuration path holds one of files
Boot(files) ==
    /\ bus = INIT(NoConfig)
    /\ unseen = [w \in Workers |-> FALSE]
    /\ current_config = NoConfig
    /\ pending = {}
    /\ nsignals = 0
    /\ sig_pc = "none"
    /\ file \in files
    /\ applied = NoFile
    /\ reloading = NoReload
    /\ udp_pc = "none"
    /\ udp_port = 0
    /\ udp_fd = NoSocket
    /\ udp_f = NoSocket
    /\ udp_map = <<>>
    /\ semaphore = CONN_BACKLOG
    /\ udp_tasks = EmptyBag
    /\ udp_force_kill = FALSE
    /\ udp_busy = FALSE
    /\ tcp_pc = "none"
    /\ tcp_port = 0
    /\ listener = NoSocket
    /\ tcp_l = NoSocket
    /\ tcp_map = <<>>
    /\ tcp_tasks = EmptyBag
    /\ tcp_force_kill = FALSE
    /\ rebuild_err = [f \in Forwarders |-> FALSE]
    /\ elapsed = [f \in Forwarders |-> 0]
    /\ forced = [f \in Forwarders |-> FALSE]
    /\ result = [w \in Workers |-> "running"]
    /\ sup_pc = "startup"
    /\ exit_code = ""
    /\ joined = {}
    /\ transitioned = FALSE
    /\ probe = NoProbe

\* clients send to one of the two forwarders; the process is started with
\* the plain start configuration and the two capabilities it needs
Init == Boot({File("json", StartConfig)}) /\ traffic \in Forwarders /\ effective = Granted

\* no client sends anything; the configuration path holds one of the files
\* the start snapshot can be built from, or nothing
InitCtl == Boot(StartFiles \cup {NoFile}) /\ traffic = "none" /\ effective = Granted

\* the process is started with the plain start configuration and any of the
\* capability sets; no client sends anything
InitCap == Boot({File("json", StartConfig)}) /\ traffic = "none" /\ effective \in CapData

\* (fault) a startup that goes on without a readable configuration
startup_ok_unread(capable, args, err, logging) == capable /\ args /\ logging

\* every startup check of main passed
startup_ok(capable, args, err, logging) == capable /\ args /\ err = "" /\ logging

\* main up to its join loop: the capability probe, the environment, the
\* configuration file, logging; then the snapshot, the channel and the three
\* workers. A failing check returns FAILURE before anything is spawned.
main_start ==
    /\ sup_pc = "startup"
    /\ \E ret \in {0, -1}, args \in BOOLEAN, logging \in BOOLEAN :
          LET capable == is_capable(ret, effective)
              configs == read_config(file)
          IN  /\ probe' = capable
              /\ IF startup_ok(capable.capable, args, configs.err, logging)
                 THEN /\ current_config' = InitialConfig
                      /\ bus' = INIT(InitialConfig)
                      /\ applied' = file
                      /\ sig_pc' = "start"
                      /\ udp_pc' = "start"
                      /\ tcp_pc' = "start"
                      /\ sup_pc' = "join"
                      /\ UNCHANGED exit_code
                 ELSE /\ sup_pc' = "done"
                      /\ exit_code' = "FAILURE"
                      /\ UNCHANGED <<current_config, bus, applied, sig_pc, udp_pc, tcp_pc>>
    /\ UNCHANGED <<unseen, pending, nsignals, file, reloading, udp_port, udp_fd, udp_f, udp_map,
                   semaphore, udp_tasks, udp_force_kill, udp_busy, tcp_port, listener, tcp_l, tcp_map,
                   tcp_tasks, tcp_force_kill, elapsed, forced, result, joined, transitioned,
                   traffic,
                   rebuild_err, effective>>

\* --------------------------------------------------------- signal handler
\* a signal reaches the process while the handler's streams are registered
\* (one undelivered signal at a time); the operator may have edited the
\* configuration file before a SIGHUP
Deliver(s) ==
    /\ sig_pc = "loop"
    /\ pending = {}
    /\ s = "SIGHUP" => nsignals < (IF traffic = "none" THEN MaxQuietReloads ELSE MaxReloads)
    /\ pending' = {s}
    /\ nsignals' = IF s = "SIGHUP" THEN nsignals + 1 ELSE nsignals
    /\ IF s = "SIGHUP" THEN file' \in Files ELSE file' = file
    /\ UNCHANGED <<sig_pc, applied, reloading, busVars, udpVars, tcpVars, elapsed, forced,
                   result, supVars, traffic,
                   rebuild_err, effective, probe>>

\* the handler function returns with res; its streams, tx and rx are dropped
SigReturn(res) ==
    /\ sig_pc' = "done"
    /\ pending' = {}
    /\ result' = [result EXCEPT ![SIG] = res]
    /\ UNCHANGED <<file, applied, reloading>>

\* signal_handler up to its loop: the early return and the four registrations
signal_handler_start ==
    /\ sig_pc = "start"
    /\ IF bus.kind \in {"STOP", "PANICKED"}
       THEN SigReturn("ok") /\ DropReceiver(SIG)
       ELSE \E registered \in BOOLEAN :
                IF registered
                THEN /\ sig_pc' = "loop"
                     /\ UNCHANGED <<pending, result, unseen, file, applied, reloading>>
                ELSE SigReturn("err") /\ DropReceiver(SIG)
    /\ UNCHANGED <<bus, current_config, nsignals, udpVars, tcpVars, elapsed, forced, supVars, traffic,
                   rebuild_err, effective, probe>>

\* the handler is at its select!, not inside one of its branches
AtSelect == sig_pc = "loop" /\ ~reloading.publish

\* select branch rx.changed()
signal_handler_changed ==
    /\ AtSelect
    /\ unseen[SIG] \/ closed
    /\ IF unseen[SIG] /\ bus.kind \notin {"STOP", "PANICKED"}
       THEN /\ unseen' = [unseen EXCEPT ![SIG] = FALSE]
            /\ UNCHANGED <<sig_pc, pending, result, file, applied, reloading>>
       ELSE SigReturn("ok") /\ DropReceiver(SIG)
    /\ UNCHANGED <<bus, current_config, nsignals, udpVars, tcpVars, elapsed, forced, supVars, traffic,
                   rebuild_err, effective, probe>>

\* (fault) every terminating signal treated as SIGQUIT
SignalAction_kill(s) == KILL

\* the action a terminating signal makes the handler publish
SignalAction(s) == IF s = "SIGQUIT" THEN KILL ELSE SHUTDOWN

\* select branches sigquit.recv(), sigint.recv(), sigterm.recv()
signal_handler_exit(s) ==
    /\ AtSelect
    /\ s \in pending
    /\ s \in {"SIGQUIT", "SIGINT", "SIGTERM"}
    /\ send_replace(SignalAction(s), [pcOf EXCEPT ![SIG] = "done"])
    /\ SigReturn("ok")
    /\ UNCHANGED <<current_config, nsignals, udpVars, tcpVars, elapsed, forced, supVars, traffic,
                   rebuild_err, effective, probe>>

\* (fault) a store that leaves the slot as it was
store_lost(slot, c) == slot

\* ArcSwap::store: the slot holds c
store(slot, c) == c

\* ArcSwap::load
load == current_config

\* (fault) a comparison that reports a port change for every new snapshot
port_changed_always(old_cfg, new_config) == TRUE

\* `**old_cfg != new_config`
needs_update(old_cfg, new_config) == old_cfg # new_config

\* `old_cfg.port != new_config.port`
port_changed(old_cfg, new_config) == old_cfg.port # new_config.port

\* select branch sighup.recv(), up to current_config.store: re-read the file,
\* compare with the published snapshot, swap the snapshot
signal_handler_reload ==
    /\ AtSelect
    /\ "SIGHUP" \in pending
    /\ pending' = pending \ {"SIGHUP"}
    /\ \E clock_ok \in BOOLEAN :
          LET r == read_config(file)
          IN  IF clock_ok /\ r.err = ""
              THEN \E new_config \in RuntimeConfigsFrom(r.cfg) :
                     LET old_cfg == load
                     IN  /\ applied' = file
                         /\ IF needs_update(old_cfg, new_config)
                            THEN /\ current_config' = store(current_config, new_config)
                                 /\ reloading' =
                                        Reloading(port_changed(old_cfg, new_config), new_config)
                            ELSE UNCHANGED <<current_config, reloading>>
              ELSE UNCHANGED <<current_config, applied, reloading>>
    /\ UNCHANGED <<bus, unseen, nsignals, sig_pc, file, udpVars, tcpVars, elapsed, forced,
                   result, supVars, traffic,
                   rebuild_err, effective, probe>>

\* the same branch after the store: tx.send_replace(Actions::RELOAD(port_changed))
signal_handler_send_reload ==
    /\ sig_pc = "loop"
    /\ reloading.publish
    /\ send_replace(RELOAD(reloading.port_changed, reloading.new_config), pcOf)
    /\ reloading' = NoReload
    /\ UNCHANGED <<current_config, pending, nsignals, sig_pc, file, applied, udpVars, tcpVars,
                   elapsed, forced, result, supVars, traffic,
                   rebuild_err, effective, probe>>

\* ------------------------------------------------------------------ time
\* tokio::time::timeout polled: the inner future first, then the deadline
timeout(poll, ticks, limit) ==
    IF poll = "Ready" THEN "Ok" ELSE IF ticks >= limit THEN "Elapsed" ELSE "Pending"

\* the drain future: bool::then builds the joining future and returns it in
\* an Option without awaiting it, so the block is ready at its first poll
drain(tasks) == "Ready"

\* the clock advances while a forwarder's drain timeout is armed
Tick(f) ==
    /\ pcOf[f] = "drain"
    /\ elapsed[f] < DRAIN_TICKS
    /\ elapsed' = [elapsed EXCEPT ![f] = @ + 1]
    /\ UNCHANGED <<busVars, sigVars, udpVars, tcpVars, forced, result, supVars, traffic,
                   rebuild_err, effective, probe>>

\* ---------------------------------------------------------- UDP forwarder
\* (fault) a socket bound to the port the forwarder already listens on
create_udp_socket_fd_stale(port) ==
    [port |-> udp_port, queue |-> <<>>, ready |-> FALSE,
     opts |-> {"IP_TRANSPARENT", "IP_RECVORIGDSTADDR"}]

\* create_udp_socket_fd: a fresh socket with IP_TRANSPARENT and
\* IP_RECVORIGDSTADDR set, bound to (LISTEN_IP, port)
create_udp_socket_fd(port) ==
    [port |-> port, queue |-> <<>>, ready |-> FALSE,
     opts |-> {"IP_TRANSPARENT", "IP_RECVORIGDSTADDR"}]

\* what one recvmsg, recv_from or read into a buffer of BUFFER_SIZE bytes
\* leaves in it: buf[..len]
receive(bytes) ==
    SubSeq(bytes, 1, IF Len(bytes) < BUFFER_SIZE THEN Len(bytes) ELSE BUFFER_SIZE)

\* recvmsg with MSG_DONTWAIT into buf: EWOULDBLOCK when nothing is queued,
\* else the head of the queue
recvmsg(sock) ==
    IF sock.queue = <<>>
    THEN [errno |-> "EWOULDBLOCK", address |-> NoAddress, cmsgs |-> "absent", buf |-> <<>>]
    ELSE LET d == Head(sock.queue)
         IN  [errno |-> "", address |-> d.src, cmsgs |-> d.cmsg, buf |-> receive(d.payload)]

\* Option<(src, len, orig_dst)>, with the bytes recvmsg left in buf
None == [some |-> FALSE, src |-> NoAddress, orig_dst |-> 0, buf |-> <<>>]
Some(src, orig_dst, buf) == [some |-> TRUE, src |-> src, orig_dst |-> orig_dst, buf |-> buf]

\* recvfrom_cmsg: one non-blocking recvmsg; Some when msg.address is Some
\* and the control messages hold Ipv4OrigDstAddr
recvfrom_cmsg(sock) ==
    LET msg == recvmsg(sock)
    IN  IF msg.errno # "" THEN None
        ELSE IF msg.address # NoAddress /\ msg.cmsgs = "present"
             THEN Some(msg.address, Head(sock.queue).odp, msg.buf)
             ELSE None

\* (fault) try_acquire_owned handing out a permit it does not have
try_acquire_always(permits) == TRUE

\* Semaphore::try_acquire_owned succeeds while a permit is available
try_acquire_owned(permits) == permits > 0

\* (fault) a forwarder that sets itself up whatever the bus holds
carries_config_any(action) == TRUE

\* `Actions::INIT(c) | Actions::RELOAD(c)`: the arm of a forwarder's first
\* match that goes on to create the socket
carries_config(action) == action.kind \in {"INIT", "RELOAD"}

\* (fault) a forwarder that goes on into its loop without a socket
udp_start_unbound ==
    /\ udp_pc' = "loop"
    /\ UNCHANGED <<result, unseen, udp_map, udp_port, udp_fd>>

\* `create_udp_socket_fd(c.port)?` on Err: the function returns the error
udp_start_failed ==
    /\ udp_pc' = "done"
    /\ result' = [result EXCEPT ![UDP] = "err"]
    /\ DropReceiver(UDP)
    /\ UNCHANGED <<udp_map, udp_port, udp_fd>>

\* udp_forwarder up to its loop
udp_forwarder_start ==
    /\ udp_pc = "start"
    /\ IF carries_config(bus)
       THEN \E created \in BOOLEAN :
                IF created
                THEN /\ udp_pc' = "loop"
                     /\ udp_map' = bus.c.udp_map
                     /\ udp_port' = bus.c.port
                     /\ udp_fd' = create_udp_socket_fd(bus.c.port)
                     /\ UNCHANGED <<result, unseen>>
                ELSE udp_start_failed
       ELSE /\ udp_pc' = "done"
            /\ result' = [result EXCEPT ![UDP] = "ok"]
            /\ DropReceiver(UDP)
            /\ UNCHANGED <<udp_map, udp_port, udp_fd>>
    /\ UNCHANGED <<bus, current_config, sigVars, udp_f, semaphore, udp_tasks, udp_force_kill,
                   udp_busy, tcpVars, elapsed, forced, supVars, traffic,
                   rebuild_err, effective, probe>>

\* leaving the loop: break, then `if force_kill { tasks.abort_all() }`
udp_break(force_kill) ==
    /\ udp_pc' = "drain"
    /\ udp_force_kill' = force_kill
    /\ udp_tasks' = IF force_kill THEN abort_all(udp_tasks) ELSE udp_tasks
    /\ semaphore' = IF force_kill THEN semaphore + InFlight(udp_tasks) ELSE semaphore
    /\ UNCHANGED <<udp_map, udp_port, udp_fd, udp_f>>

\* (fault) a rebuild that gives up the old socket before the new one exists
udp_rebuild_drops == udp_fd' = NoSocket /\ UNCHANGED <<udp_f, udp_port, udp_tasks>>

\* create_udp_socket_fd failed during RELOAD: error!, continue
udp_rebuild_failed == UNCHANGED <<udp_fd, udp_f, udp_port, udp_tasks>>

\* (fault) a forwarder that rebuilds its socket when RELOAD's flag says so
needs_rebuild_flag(c, port) == bus.port_changed

\* (fault) a forwarder that rebuilds its socket on every RELOAD
needs_rebuild_always(c, port) == TRUE

\* `if c.port != port`
needs_rebuild(c, port) == c.port # port

\* the UDP forwarder is at its select!, not inside one of its branches
UdpAtSelect == udp_pc = "loop" /\ udp_f = NoSocket

\* select branch rx.changed() of the UDP forwarder: a RELOAD for another
\* port up to the return of create_udp_socket_fd, every other action with
\* the loop's trailing drain
udp_forwarder_changed ==
    /\ UdpAtSelect
    /\ unseen[UDP] \/ closed
    /\ unseen' = [unseen EXCEPT ![UDP] = FALSE]
    /\ IF ~unseen[UDP] THEN udp_break(FALSE) /\ UNCHANGED rebuild_err
       ELSE CASE bus.kind = "RELOAD" ->
                    /\ udp_map' = bus.c.udp_map
                    /\ IF needs_rebuild(bus.c, udp_port)
                       THEN \E created \in BOOLEAN :
                              /\ rebuild_err' = [rebuild_err EXCEPT ![UDP] = ~created]
                              /\ IF created
                                THEN /\ udp_f' = create_udp_socket_fd(bus.c.port)
                                     /\ UNCHANGED <<udp_fd, udp_port, udp_tasks>>
                                ELSE udp_rebuild_failed
                       ELSE /\ udp_tasks' = try_join_all(udp_tasks)
                            /\ rebuild_err' = [rebuild_err EXCEPT ![UDP] = FALSE]
                            /\ UNCHANGED <<udp_fd, udp_f, udp_port>>
                    /\ UNCHANGED <<udp_pc, udp_force_kill, semaphore>>
              [] bus.kind \in {"STOP", "SHUTDOWN"} -> udp_break(FALSE) /\ UNCHANGED rebuild_err
              [] bus.kind \in {"KILL", "PANICKED"} -> udp_break(TRUE) /\ UNCHANGED rebuild_err
              [] bus.kind = "INIT" ->
                    /\ udp_tasks' = try_join_all(udp_tasks)
                    /\ UNCHANGED rebuild_err
                    /\ UNCHANGED <<udp_pc, udp_map, udp_port, udp_fd, udp_f, udp_force_kill,
                                   semaphore>>
    /\ UNCHANGED <<bus, current_config, sigVars, udp_busy, tcpVars, elapsed, forced, result,
                   supVars, traffic, effective, probe>>

\* the same branch after create_udp_socket_fd returned Ok(f): `udp_fd = f`
\* drops the old socket, `port = c.port`, then the loop's trailing drain
udp_forwarder_assign ==
    /\ udp_pc = "loop"
    /\ udp_f # NoSocket
    /\ udp_fd' = udp_f
    /\ udp_port' = udp_f.port
    /\ udp_f' = NoSocket
    /\ udp_tasks' = try_join_all(udp_tasks)
    /\ UNCHANGED <<busVars, sigVars, udp_pc, udp_map, semaphore, udp_force_kill, udp_busy,
                   tcpVars, elapsed, forced, result, supVars, traffic,
                   rebuild_err, effective, probe>>

\* the kernel queues datagram d on socket sock
Queued(sock, d) ==
    [sock EXCEPT !.queue = IF d.sum THEN Append(@, d) ELSE @, !.ready = TRUE]

\* a datagram sent to port lp reaches the listen socket: the socket becomes
\* readable; a datagram whose checksum is bad is discarded when recvmsg
\* comes to it, so it never shows in the queue recvmsg reads from
udp_arrive(d, lp) ==
    /\ traffic = UDP
    /\ udp_pc = "loop"
    /\ \/ /\ Accepts(udp_fd, lp)
          /\ Len(udp_fd.queue) < MaxQueue
          /\ udp_fd' = Queued(udp_fd, d)
          /\ UNCHANGED udp_f
       \/ /\ Accepts(udp_f, lp)
          /\ Len(udp_f.queue) < MaxQueue
          /\ udp_f' = Queued(udp_f, d)
          /\ UNCHANGED udp_fd
    /\ UNCHANGED <<busVars, sigVars, udp_pc, udp_port, udp_map, semaphore, udp_tasks,
                   udp_force_kill, udp_busy, tcpVars, elapsed, forced, result, supVars, traffic,
                   rebuild_err, effective, probe>>

\* a datagram a client sends to a mapped port
WellFormed == Datagram(Client, 1, "present", Payload(1), TRUE)

\* a datagram sent to port lp reaches the listen socket while another is
\* still queued on it
udp_arrive_behind(d, lp) ==
    /\ traffic = UDP
    /\ udp_pc = "loop"
    /\ Accepts(udp_fd, lp)
    /\ udp_fd.queue # <<>>
    /\ Len(udp_fd.queue) < MaxBurst
    /\ udp_fd' = Queued(udp_fd, d)
    /\ UNCHANGED <<busVars, sigVars, udp_pc, udp_port, udp_f, udp_map, semaphore, udp_tasks,
                   udp_force_kill, udp_busy, tcpVars, elapsed, forced, result, supVars, traffic,
                   rebuild_err, effective, probe>>

\* tasks.spawn of the UDP relay: the task holds the permit p, src, orig_dst,
\* packet = buf[..len] and a clone of the Arc of the map
udp_spawn(tasks, recv_res) ==
    tasks (+) SetToBag({[Task("lookup", recv_res.orig_dst, bus.kind = "KILL") EXCEPT
                            !.src = recv_res.src,
                            !.packet = recv_res.buf,
                            !.dispatched = udp_map]})

\* udp_fd.readable() yields an error: error!, continue
udp_readiness_failed ==
    /\ udp_busy' = FALSE
    /\ UNCHANGED <<udp_fd, semaphore, udp_tasks>>

\* select branch udp_fd.readable(), with the loop's trailing drain
udp_forwarder_readable ==
    /\ UdpAtSelect
    /\ udp_fd.ready
    /\ \E guard \in BOOLEAN :
          IF guard
          THEN LET recv_res == recvfrom_cmsg(udp_fd)
                   rest == IF udp_fd.queue = <<>> THEN <<>> ELSE Tail(udp_fd.queue)
               IN  /\ udp_fd' = [udp_fd EXCEPT !.queue = rest, !.ready = FALSE]
                   /\ IF recv_res.some /\ try_acquire_owned(semaphore)
                      THEN /\ semaphore' = semaphore - 1
                           /\ udp_tasks' = try_join_all(udp_spawn(udp_tasks, recv_res))
                      ELSE /\ semaphore' = semaphore
                           /\ udp_tasks' = try_join_all(udp_tasks)
                   /\ udp_busy' = (recv_res.some /\ ~try_acquire_owned(semaphore))
          ELSE udp_readiness_failed
    /\ UNCHANGED <<busVars, sigVars, udp_pc, udp_port, udp_f, udp_map, udp_force_kill,
                   tcpVars, elapsed, forced, result, supVars, traffic,
                   rebuild_err, effective, probe>>

\* the step a UDP relay task takes from pc under outcome ok: the lookup,
\* UdpSocket::bind, send_to(&packet, proxy), the recv_from under its timeout
\* with the making of the reply socket, send_to(&reply_buf[..reply_len], src)
udp_relay_next(pc, odp, ok) ==
    CASE pc = "lookup" -> IF get(udp_map, odp) = NoUpstream THEN "unmapped" ELSE "bind"
      [] pc = "bind"   -> IF ok THEN "send" ELSE "failed"
      [] pc = "send"   -> IF ok THEN "recv" ELSE "failed"
      [] pc = "recv"   -> IF ok THEN "reply" ELSE "failed"
      [] pc = "reply"  -> IF ok THEN "done" ELSE "failed"

\* the locals of UDP relay task t as it moves on to step next: proxy is what
\* the map holds when the task reads it; reply_buf[..reply_len] is what
\* recv_from took of the datagram on the upstream socket
udp_relay_locals(t, next) ==
    CASE t.pc = "lookup" /\ next = "bind" -> [t EXCEPT !.proxy = get(udp_map, t.odp)]
      [] t.pc = "recv" /\ next = "reply"  ->
             [t EXCEPT !.reply = receive(Head(t.inbox)), !.inbox = <<>>]
      [] OTHER -> t

\* a datagram with payload R reaches the upstream socket of task t, which
\* has sent its packet and awaits the reply
udp_upstream_reply(t, R) ==
    /\ traffic = UDP
    /\ udp_pc \in {"loop", "drain"}
    /\ t \in Running(udp_tasks)
    /\ t.pc = "recv"
    /\ t.inbox = <<>>
    /\ udp_tasks' = (udp_tasks (-) SetToBag({t})) (+) SetToBag({[t EXCEPT !.inbox = <<R>>]})
    /\ UNCHANGED <<busVars, sigVars, udp_pc, udp_port, udp_fd, udp_f, udp_map, semaphore,
                   udp_force_kill, udp_busy, tcpVars, elapsed, forced, result, supVars, traffic,
                   rebuild_err, effective, probe>>

\* (fault) a task that ends without its permit coming back
release_leak(next) == semaphore

\* the permit is dropped with the task
release(next) == IF next \in EndKinds THEN semaphore + 1 ELSE semaphore

\* one await-delimited step of a UDP relay task standing at t
udp_relay(t) ==
    /\ udp_pc \in {"loop", "drain"}
    /\ t \in Running(udp_tasks)
    /\ t.pc \in UdpSteps
    /\ \E ok \in BOOLEAN :
          LET next == udp_relay_next(t.pc, t.odp, ok)
          IN  /\ (next = "reply") => t.inbox # <<>>
              /\ udp_tasks' = (udp_tasks (-) SetToBag({t}))
                                 (+) SetToBag({Step(udp_relay_locals(t, next), next)})
              /\ semaphore' = release(next)
    /\ UNCHANGED <<busVars, sigVars, udp_pc, udp_port, udp_fd, udp_f, udp_map, udp_force_kill,
                   udp_busy, tcpVars, elapsed, forced, result, supVars, traffic,
                   rebuild_err, effective, probe>>

\* the function's frame is dropped: its JoinSet (with the tasks' permits), its
\* socket and its other locals
udp_return ==
    /\ udp_pc' = "done"
    /\ udp_tasks' = drop(udp_tasks)
    /\ semaphore' = semaphore + InFlight(udp_tasks)
    /\ udp_fd' = NoSocket
    /\ udp_f' = NoSocket
    /\ udp_port' = 0
    /\ udp_map' = <<>>
    /\ udp_force_kill' = FALSE
    /\ udp_busy' = FALSE
    /\ elapsed' = [elapsed EXCEPT ![UDP] = 0]

\* after the loop: timeout(DRAIN_DURATION, drain), the log, return Ok(())
udp_forwarder_drain ==
    /\ udp_pc = "drain"
    /\ LET r == timeout(drain(udp_tasks), elapsed[UDP], DRAIN_TICKS)
       IN  /\ r # "Pending"
           /\ forced' = [forced EXCEPT ![UDP] = (r = "Elapsed")]
    /\ result' = [result EXCEPT ![UDP] = "ok"]
    /\ udp_return
    /\ UNCHANGED <<busVars, sigVars, tcpVars, supVars, traffic,
                   rebuild_err, effective, probe>>

\* ---------------------------------------------------------- TCP forwarder
\* create_tcp_listener: a fresh listening socket with IP_TRANSPARENT set,
\* bound to (LISTEN_IP, port)
create_tcp_listener(port) ==
    [port |-> port, queue |-> <<>>, ready |-> FALSE, opts |-> {"IP_TRANSPARENT"}]

\* tcp_forwarder up to its loop
tcp_forwarder_start ==
    /\ tcp_pc = "start"
    /\ IF carries_config(bus)
       THEN \E created \in BOOLEAN :
                IF created
                THEN /\ tcp_pc' = "loop"
                     /\ tcp_map' = bus.c.tcp_map
                     /\ tcp_port' = bus.c.port
                     /\ listener' = create_tcp_listener(bus.c.port)
                     /\ UNCHANGED <<result, unseen>>
                ELSE /\ tcp_pc' = "done"
                     /\ result' = [result EXCEPT ![TCP] = "err"]
                     /\ DropReceiver(TCP)
                     /\ UNCHANGED <<tcp_map, tcp_port, listener>>
       ELSE /\ tcp_pc' = "done"
            /\ result' = [result EXCEPT ![TCP] = "ok"]
            /\ DropReceiver(TCP)
            /\ UNCHANGED <<tcp_map, tcp_port, listener>>
    /\ UNCHANGED <<bus, current_config, sigVars, tcp_l, tcp_tasks, tcp_force_kill,
                   udpVars, elapsed, forced, supVars, traffic,
                   rebuild_err, effective, probe>>

\* leaving the loop: break, then `if force_kill { tasks.abort_all() }`
tcp_break(force_kill) ==
    /\ tcp_pc' = "drain"
    /\ tcp_force_kill' = force_kill
    /\ tcp_tasks' = IF force_kill THEN abort_all(tcp_tasks) ELSE tcp_tasks
    /\ UNCHANGED <<tcp_map, tcp_port, listener, tcp_l>>

\* create_tcp_listener failed during RELOAD: error!, continue
tcp_rebuild_failed == UNCHANGED <<listener, tcp_l, tcp_port, tcp_tasks>>

\* the TCP forwarder is at its select!, not inside one of its branches
TcpAtSelect == tcp_pc = "loop" /\ tcp_l = NoSocket

\* select branch rx.changed() of the TCP forwarder: a RELOAD for another
\* port up to the return of create_tcp_listener, every other action with
\* the loop's trailing drain
tcp_forwarder_changed ==
    /\ TcpAtSelect
    /\ unseen[TCP] \/ closed
    /\ unseen' = [unseen EXCEPT ![TCP] = FALSE]
    /\ IF ~unseen[TCP] THEN tcp_break(FALSE) /\ UNCHANGED rebuild_err
       ELSE CASE bus.kind = "RELOAD" ->
                    /\ tcp_map' = bus.c.tcp_map
                    /\ IF needs_rebuild(bus.c, tcp_port)
                       THEN \E created \in BOOLEAN :
                              /\ rebuild_err' = [rebuild_err EXCEPT ![TCP] = ~created]
                              /\ IF created
                                THEN /\ tcp_l' = create_tcp_listener(bus.c.port)
                                     /\ UNCHANGED <<listener, tcp_port, tcp_tasks>>
                                ELSE tcp_rebuild_failed
                       ELSE /\ tcp_tasks' = try_join_all(tcp_tasks)
                            /\ rebuild_err' = [rebuild_err EXCEPT ![TCP] = FALSE]
                            /\ UNCHANGED <<listener, tcp_l, tcp_port>>
                    /\ UNCHANGED <<tcp_pc, tcp_force_kill>>
              [] bus.kind \in {"STOP", "SHUTDOWN"} -> tcp_break(FALSE) /\ UNCHANGED rebuild_err
              [] bus.kind \in {"KILL", "PANICKED"} -> tcp_break(TRUE) /\ UNCHANGED rebuild_err
              [] bus.kind = "INIT" ->
                    /\ tcp_tasks' = try_join_all(tcp_tasks)
                    /\ UNCHANGED rebuild_err
                    /\ UNCHANGED <<tcp_pc, tcp_map, tcp_port, listener, tcp_l, tcp_force_kill>>
    /\ UNCHANGED <<bus, current_config, sigVars, udpVars, elapsed, forced, result, supVars, traffic,
                   effective, probe>>

\* the same branch after create_tcp_listener returned Ok(l): `listener = l`
\* drops the old listener, `port = c.port`, then the loop's trailing drain
tcp_forwarder_assign ==
    /\ tcp_pc = "loop"
    /\ tcp_l # NoSocket
    /\ listener' = tcp_l
    /\ tcp_port' = tcp_l.port
    /\ tcp_l' = NoSocket
    /\ tcp_tasks' = try_join_all(tcp_tasks)
    /\ UNCHANGED <<busVars, sigVars, udpVars, tcp_pc, tcp_map, tcp_force_kill, elapsed, forced,
                   result, supVars, traffic,
                   rebuild_err, effective, probe>>

\* tasks.spawn of the TCP relay for an accepted client: the task holds
\* client, src and a clone of the Arc of the map
tcp_spawn(tasks, conn) ==
    tasks (+) SetToBag({[Task("lookup", conn, bus.kind = "KILL") EXCEPT
                            !.src = Client,
                            !.dispatched = tcp_map]})

\* (fault) an accept error that makes the forwarder leave its loop
tcp_accept_breaks ==
    /\ tcp_pc' = "drain"
    /\ UNCHANGED <<tcp_tasks, tcp_port, listener, tcp_l, tcp_map, tcp_force_kill>>

\* listener.accept() yields an error: error!, then the loop's trailing drain
tcp_accept_failed ==
    /\ tcp_tasks' = try_join_all(tcp_tasks)
    /\ UNCHANGED <<tcp_pc, tcp_port, listener, tcp_l, tcp_map, tcp_force_kill>>

\* select branch listener.accept(): a client connects (or accept fails), with
\* the loop's trailing drain
tcp_forwarder_accept ==
    /\ traffic = TCP
    /\ TcpAtSelect
    /\ InFlight(tcp_tasks) < MaxTcpTasks
    /\ \E lp \in ListenPorts : Accepts(listener, lp)
    /\ \E accepted \in BOOLEAN, conn \in Connections :
          IF accepted
          THEN /\ tcp_tasks' = try_join_all(tcp_spawn(tcp_tasks, conn))
               /\ UNCHANGED <<tcp_pc, tcp_port, listener, tcp_l, tcp_map, tcp_force_kill>>
          ELSE tcp_accept_failed
    /\ UNCHANGED <<busVars, sigVars, udpVars, elapsed, forced, result, supVars, traffic,
                   rebuild_err, effective, probe>>

\* (fault) a relay that starts another exchange after its reply, and tries
\* the upstream again after a failed connect
tcp_relay_again(pc, odp, ok) ==
    CASE pc = "lookup"  -> IF odp = 0 THEN "failed"
                           ELSE IF get(tcp_map, odp) = NoUpstream THEN "unmapped" ELSE "connect"
      [] pc = "connect" -> IF ok THEN "read" ELSE "connect"
      [] pc = "read"    -> IF ok THEN "write" ELSE "failed"
      [] pc = "write"   -> IF ok THEN "upread" ELSE "failed"
      [] pc = "upread"  -> IF ok THEN "reply" ELSE "failed"
      [] pc = "reply"   -> IF ok THEN "read" ELSE "failed"

\* the step a TCP relay task takes from pc under outcome ok: original_dst_v4
\* and the lookup, the connect under its timeout, client.read,
\* upstream_conn.write_all, upstream_conn.read under its timeout,
\* client.write_all
tcp_relay_next(pc, odp, ok) ==
    CASE pc = "lookup"  -> IF odp = 0 THEN "failed"
                           ELSE IF get(tcp_map, odp) = NoUpstream THEN "unmapped" ELSE "connect"
      [] pc = "connect" -> IF ok THEN "read" ELSE "failed"
      [] pc = "read"    -> IF ok THEN "write" ELSE "failed"
      [] pc = "write"   -> IF ok THEN "upread" ELSE "failed"
      [] pc = "upread"  -> IF ok THEN "reply" ELSE "failed"
      [] pc = "reply"   -> IF ok THEN "done" ELSE "failed"

\* the locals of TCP relay task t as it moves on to step next, the peer
\* having sent stream: proxy is what the map holds when the task reads it;
\* buf[..len] is what one read took of the client's bytes, buf[..reply_len]
\* what one read took of the upstream's
tcp_relay_locals(t, next, stream) ==
    CASE t.pc = "lookup" /\ next = "connect" -> [t EXCEPT !.proxy = get(tcp_map, t.odp)]
      [] t.pc = "read" /\ next = "write"     -> [t EXCEPT !.packet = receive(stream)]
      [] t.pc = "upread" /\ next = "reply"   -> [t EXCEPT !.reply = receive(stream)]
      [] OTHER -> t

\* one await-delimited step of a TCP relay task standing at t
tcp_relay(t) ==
    /\ tcp_pc \in {"loop", "drain"}
    /\ t \in Running(tcp_tasks)
    /\ t.pc \in TcpSteps
    /\ \E ok \in BOOLEAN, stream \in Payloads :
          LET next == tcp_relay_next(t.pc, t.odp, ok)
          IN  tcp_tasks' = (tcp_tasks (-) SetToBag({t}))
                             (+) SetToBag({Step(tcp_relay_locals(t, next, stream), next)})
    /\ UNCHANGED <<busVars, sigVars, udpVars, tcp_pc, tcp_port, listener, tcp_l, tcp_map,
                   tcp_force_kill, elapsed, forced, result, supVars, traffic,
                   rebuild_err, effective, probe>>

\* the function's frame is dropped: its JoinSet, its listener and its other locals
tcp_return ==
    /\ tcp_pc' = "done"
    /\ tcp_tasks' = drop(tcp_tasks)
    /\ listener' = NoSocket
    /\ tcp_l' = NoSocket
    /\ tcp_port' = 0
    /\ tcp_map' = <<>>
    /\ tcp_force_kill' = FALSE
    /\ elapsed' = [elapsed EXCEPT ![TCP] = 0]

\* after the loop: timeout(DRAIN_DURATION, drain), the log, return Ok(())
tcp_forwarder_drain ==
    /\ tcp_pc = "drain"
    /\ LET r == timeout(drain(tcp_tasks), elapsed[TCP], DRAIN_TICKS)
       IN  /\ r # "Pending"
           /\ forced' = [forced EXCEPT ![TCP] = (r = "Elapsed")]
    /\ result' = [result EXCEPT ![TCP] = "ok"]
    /\ tcp_return
    /\ UNCHANGED <<busVars, sigVars, udpVars, supVars, traffic,
                   rebuild_err, effective, probe>>

\* -------------------------------------------------------------- Supervisor
\* (fault) a Supervisor that publishes for every failing worker it joins
publication_every(w, res) ==
    IF res = "ok" THEN "none"
    ELSE IF res = "err" THEN "STOP" ELSE "PANICKED"

\* what the Supervisor publishes for a worker's result: STOP(label) for the
\* first error, PANICKED for a join failure, nothing once it has transitioned
publication(w, res) ==
    IF transitioned \/ res = "ok" THEN "none"
    ELSE IF res = "err" THEN "STOP" ELSE "PANICKED"

\* main's join loop takes the result of a finished worker
supervisor_join(w) ==
    /\ sup_pc = "join"
    /\ w \notin joined
    /\ result[w] # "running"
    /\ joined' = joined \cup {w}
    /\ LET p == publication(w, result[w])
       IN  IF p = "none"
           THEN UNCHANGED <<bus, unseen, transitioned>>
           ELSE /\ send_replace(IF p = "STOP" THEN STOP(w) ELSE PANICKED, pcOf)
                /\ transitioned' = TRUE
    /\ UNCHANGED <<current_config, sigVars, udpVars, tcpVars, elapsed, forced, result, sup_pc,
                   exit_code, traffic,
                   rebuild_err, effective, probe>>

\* (fault) a join_next that yields None while a task is still in the set
join_next_early(taken) == taken # {}

\* JoinSet::join_next yields None once the result of every spawned task has
\* been taken
join_next_none(taken) == taken = Workers

\* join_next yields None: STOPPING is notified and main returns SUCCESS
supervisor_return ==
    /\ sup_pc = "join"
    /\ join_next_none(joined)
    /\ sup_pc' = "done"
    /\ exit_code' = "SUCCESS"
    /\ UNCHANGED <<busVars, sigVars, udpVars, tcpVars, elapsed, forced, result, joined,
                   transitioned, traffic,
                   rebuild_err, effective, probe>>

\* a worker panics in its loop: its frame is unwound, the join handle yields a JoinError
panic(w) ==
    /\ pcOf[w] = "loop"
    /\ w = SIG => AtSelect
    /\ w = UDP => UdpAtSelect
    /\ w = TCP => TcpAtSelect
    /\ result' = [result EXCEPT ![w] = "panic"]
    /\ DropReceiver(w)
    /\ CASE w = UDP -> udp_return /\ UNCHANGED <<tcpVars, sigVars>>
         [] w = TCP -> tcp_return /\ UNCHANGED <<udpVars, sigVars>>
         [] w = SIG -> /\ sig_pc' = "done"
                       /\ pending' = {}
                       /\ UNCHANGED <<nsignals, file, applied, reloading, udpVars, tcpVars,
                                      elapsed>>
    /\ UNCHANGED <<bus, current_config, forced, supVars, traffic,
                   rebuild_err, effective, probe>>

\* ---------------------------------------------------------- specification
\* the signal handler, the signals it is sent, the Supervisor's joins and
\* worker panics
Control ==
    \/ main_start
    \/ \E s \in Signals : Deliver(s)
    \/ signal_handler_start
    \/ signal_handler_changed
    \/ \E s \in Signals : signal_handler_exit(s)
    \/ signal_handler_reload
    \/ signal_handler_send_reload
    \/ \E w \in Workers : supervisor_join(w)
    \/ \E w \in Workers : panic(w)

UdpForwarder ==
    \/ udp_forwarder_start
    \/ udp_forwarder_changed
    \/ udp_forwarder_assign
    \/ udp_forwarder_drain
    \/ Tick(UDP)

UdpTraffic ==
    \/ \E d \in Datagrams, lp \in ListenPorts : udp_arrive(d, lp)
    \/ udp_forwarder_readable
    \/ \E t \in Running(udp_tasks) : udp_relay(t)
    \/ \E t \in Running(udp_tasks), R \in Payloads : udp_upstream_reply(t, R)

TcpForwarder ==
    \/ tcp_forwarder_start
    \/ tcp_forwarder_changed
    \/ tcp_forwarder_assign
    \/ tcp_forwarder_drain
    \/ Tick(TCP)

TcpTraffic ==
    \/ tcp_forwarder_accept
    \/ \E t \in Running(tcp_tasks) : tcp_relay(t)

\* the whole process
Next ==
    \/ Control
    \/ supervisor_return
    \/ UdpForwarder
    \/ UdpTraffic
    \/ TcpForwarder
    \/ TcpTraffic

Spec == Init /\ [][Next]_vars

\* the whole process while no client sends anything
NextCtl ==
    \/ Control
    \/ supervisor_return
    \/ UdpForwarder
    \/ TcpForwarder

SpecCtl == InitCtl /\ [][NextCtl]_vars

\* the process started with any of the capability sets, while nobody asks
\* for a reload: startup, the signals that end it, worker failures, shutdown
NextCap ==
    \/ main_start
    \/ \E s \in Signals \ {"SIGHUP"} : Deliver(s)
    \/ signal_handler_start
    \/ signal_handler_changed
    \/ \E s \in Signals : signal_handler_exit(s)
    \/ \E w \in Workers : supervisor_join(w)
    \/ \E w \in Workers : panic(w)
    \/ supervisor_return
    \/ udp_forwarder_start
    \/ udp_forwarder_changed
    \/ udp_forwarder_drain
    \/ Tick(UDP)
    \/ tcp_forwarder_start
    \/ tcp_forwarder_changed
    \/ tcp_forwarder_drain
    \/ Tick(TCP)

SpecCap == InitCap /\ [][NextCap]_vars

\* the runs in which the runtime has so far polled, of the two forwarders,
\* only the one the clients send to (the other is spawned and not yet started)
NextFwd ==
    \/ Control
    \/ traffic = UDP /\ udp_forwarder_start
    \/ traffic = UDP /\ udp_forwarder_changed
    \/ traffic = UDP /\ udp_forwarder_assign
    \/ traffic = UDP /\ udp_forwarder_drain
    \/ traffic = UDP /\ Tick(UDP)
    \/ traffic = UDP /\ \E d \in Datagrams, lp \in ListenPorts : udp_arrive(d, lp)
    \/ traffic = UDP /\ udp_forwarder_readable
    \/ traffic = UDP /\ \E t \in Running(udp_tasks) : udp_relay(t)
    \/ traffic = UDP /\ \E t \in Running(udp_tasks), R \in Payloads : udp_upstream_reply(t, R)
    \/ traffic = TCP /\ tcp_forwarder_start
    \/ traffic = TCP /\ tcp_forwarder_changed
    \/ traffic = TCP /\ tcp_forwarder_assign
    \/ traffic = TCP /\ tcp_forwarder_drain
    \/ traffic = TCP /\ Tick(TCP)
    \/ traffic = TCP /\ tcp_forwarder_accept
    \/ traffic = TCP /\ \E t \in Running(tcp_tasks) : tcp_relay(t)

SpecFwd == Init /\ [][NextFwd]_vars

\* the whole process while clients connect over TCP
InitTcp == Boot({File("json", StartConfig)}) /\ traffic = TCP /\ effective = Granted

NextTcp ==
    \/ Control
    \/ supervisor_return
    \/ UdpForwarder
    \/ TcpForwarder
    \/ TcpTraffic

SpecTcp == InitTcp /\ [][NextTcp]_vars

\* the runtime keeps polling every worker that can take a step, and the
\* Supervisor's join loop; nothing is assumed of signals, clients, upstreams,
\* relay tasks or panics
Fairness ==
    /\ WF_vars(main_start)
    /\ WF_vars(signal_handler_start)
    /\ WF_vars(signal_handler_changed)
    /\ WF_vars(\E s \in Signals : signal_handler_exit(s))
    /\ WF_vars(signal_handler_reload)
    /\ WF_vars(signal_handler_send_reload)
    /\ WF_vars(udp_forwarder_start)
    /\ WF_vars(udp_forwarder_changed)
    /\ WF_vars(udp_forwarder_assign)
    /\ WF_vars(udp_forwarder_drain)
    /\ WF_vars(tcp_forwarder_start)
    /\ WF_vars(tcp_forwarder_changed)
    /\ WF_vars(tcp_forwarder_assign)
    /\ WF_vars(tcp_forwarder_drain)
    /\ WF_vars(\E w \in Workers : supervisor_join(w))
    /\ WF_vars(supervisor_return)

FairSpec == Spec /\ Fairness

FairCtl == SpecCtl /\ Fairness

FairTcp == SpecTcp /\ Fairness

\* the whole process with clients that send well-formed datagrams, one at a
\* time or in bursts
InitBurst == Boot({File("json", StartConfig)}) /\ traffic = UDP /\ effective = Granted

NextBurst ==
    \/ Control
    \/ supervisor_return
    \/ UdpForwarder
    \/ TcpForwarder
    \/ \E lp \in ListenPorts : udp_arrive(WellFormed, lp)
    \/ \E lp \in ListenPorts : udp_arrive_behind(WellFormed, lp)
    \/ udp_forwarder_readable
    \/ \E t \in Running(udp_tasks) : udp_relay(t)
    \/ \E t \in Running(udp_tasks), R \in Payloads : udp_upstream_reply(t, R)

SpecBurst == InitBurst /\ [][NextBurst]_vars

\* the runtime also polls the UDP forwarder whenever its socket is readable
FairBurst == SpecBurst /\ Fairness /\ WF_vars(udp_forwarder_readable)

\* the awaits of a TCP relay task that end without the peer's doing: the
\* lookup, the connect and the upstream read under timeout(CONN_TIMEOUT, ..),
\* and the two write_all of at most BUFFER_SIZE bytes; client.read is awaited
\* with no timeout
SelfPaced == TcpSteps \ {"read"}

\* the runtime also polls every relay task that is ready, and its timers fire
RelayFairness == WF_vars(\E t \in Running(tcp_tasks) : t.pc \in SelfPaced /\ tcp_relay(t))

FairRelay == SpecTcp /\ Fairness /\ RelayFairness

\* ------------------------------------------------------------ properties
\* the UDP forwarder takes a datagram off its socket while every permit is out
ReceivesAtCapacity ==
    /\ udp_forwarder_readable
    /\ ~udp_readiness_failed
    /\ recvfrom_cmsg(udp_fd).some
    /\ InFlight(udp_tasks) = CONN_BACKLOG

\* C1: the UDP relay tasks in flight never exceed CONN_BACKLOG, and a datagram
\* received while CONN_BACKLOG tasks are in flight is dropped: no task is
\* spawned for it, it is kept neither on the socket nor anywhere else, and the
\* forwarder finishes the iteration still in its loop, logging that it is busy.
C1_Backpressure ==
    /\ [](InFlight(udp_tasks) <= CONN_BACKLOG)
    /\ [][ReceivesAtCapacity =>
             /\ udp_tasks' \sqsubseteq udp_tasks
             /\ udp_fd'.queue = Tail(udp_fd.queue)
             /\ udp_pc' = "loop"
             /\ udp_busy']_vars

\* a datagram has just been dropped with every permit still out
C1_Witness ==
    /\ udp_busy
    /\ udp_pc = "loop"
    /\ InFlight(udp_tasks) = CONN_BACKLOG

\* C2: at all times the available permits plus the UDP relay tasks in flight
\* equal CONN_BACKLOG: whichever way a task ends, its permit is back.
C2_PermitsConserved == semaphore + InFlight(udp_tasks) = CONN_BACKLOG

\* a relay task has ended (finished or cancelled), the forwarder has not yet
\* reaped it, and all permits are available again
C2_Witness ==
    /\ udp_pc \in {"loop", "drain"}
    /\ \E t \in BagToSet(udp_tasks) : t.pc \in EndKinds
    /\ semaphore = CONN_BACKLOG

\* forwarder f, in its loop, takes KILL or PANICKED from the Action Bus (its
\* receiver marks the value seen and the forwarder is still running)
ObservesKill(f) ==
    /\ pcOf[f] = "loop"
    /\ bus.kind \in {"KILL", "PANICKED"}
    /\ unseen[f] /\ ~unseen'[f]
    /\ result'[f] = "running"

\* every task that was running is now a cancelled entry of the set
AllCancelled(tasks, tasks2) ==
    /\ Running(tasks2) = {}
    /\ CopiesIn(Ended("cancelled"), tasks2) =
           CopiesIn(Ended("cancelled"), tasks) + InFlight(tasks)

\* C3: a forwarder that observes KILL or PANICKED leaves its loop in that step
\* with every outstanding relay task cancelled and no drain time spent, and
\* from then on none of its relay tasks takes a step.
C3_KillCancels ==
    [][/\ ObservesKill(UDP) =>
            udp_pc' = "drain" /\ udp_force_kill' /\ AllCancelled(udp_tasks, udp_tasks')
                /\ elapsed'[UDP] = 0
       /\ ObservesKill(TCP) =>
            tcp_pc' = "drain" /\ tcp_force_kill' /\ AllCancelled(tcp_tasks, tcp_tasks')
                /\ elapsed'[TCP] = 0
       /\ udp_force_kill => Running(udp_tasks') = {}
       /\ tcp_force_kill => Running(tcp_tasks') = {}]_vars

\* a forwarder has left its loop on KILL or PANICKED with a relay task, which
\* it cancelled, outstanding
C3_Witness ==
    \/ /\ udp_force_kill
       /\ udp_pc = "drain"
       /\ BagIn(Ended("cancelled"), udp_tasks)
    \/ /\ tcp_force_kill
       /\ tcp_pc = "drain"
       /\ BagIn(Ended("cancelled"), tcp_tasks)

\* forwarder f, out of its loop on SHUTDOWN or STOP, returns
ReturnsFromDrain(f) ==
    IF f = UDP THEN udp_forwarder_drain /\ ~udp_force_kill
               ELSE tcp_forwarder_drain /\ ~tcp_force_kill

tasksOf(f) == IF f = UDP THEN udp_tasks ELSE tcp_tasks

\* C4: a forwarder that left its loop on SHUTDOWN or STOP waits for its relay
\* tasks: it returns only once none of them is still running or the drain
\* window, measured from loop exit, has passed.
C4_DrainWaits ==
    [][\A f \in Forwarders :
          ReturnsFromDrain(f) =>
              Running(tasksOf(f)) = {} \/ elapsed[f] >= DRAIN_TICKS]_vars

\* C5: a forwarder that returns after SHUTDOWN or STOP while relay tasks are
\* still outstanding does so at the drain deadline, logging the forced exit.
C5_ForcedExitAtDeadline ==
    [][\A f \in Forwarders :
          ReturnsFromDrain(f) /\ Running(tasksOf(f)) # {} =>
              elapsed[f] = DRAIN_TICKS /\ forced'[f]]_vars

\* the steps of a relay task that lie behind its upstream send_to (UDP) or
\* connect (TCP)
UdpSent == {"recv", "reply"}
TcpConnected == {"read", "write", "upread", "reply"}

\* C6: no relay task dispatched after KILL was published gets as far as
\* completing its upstream send_to (UDP) or connect (TCP).
C6_NoSendAfterKill ==
    /\ \A t \in BagToSet(udp_tasks) : t.late => t.pc \notin UdpSent
    /\ \A t \in BagToSet(tcp_tasks) : t.late => t.pc \notin TcpConnected

AllExited == sup_pc = "done" /\ \A w \in Workers : pcOf[w] = "done"

\* C7: once SIGINT or SIGTERM has been delivered, every worker exits and the
\* Supervisor returns, wherever the forwarders were when the shutdown was
\* published (the one run set aside: the signal handler itself panics before
\* it takes the signal).
C7_ShutdownReachesAll ==
    \A s \in {"SIGINT", "SIGTERM"} :
        (s \in pending) ~> (AllExited \/ result[SIG] = "panic")

\* SIGINT or SIGTERM was delivered and taken, SHUTDOWN is on the bus, and the
\* process is down
C7_Witness ==
    /\ bus.kind = "SHUTDOWN"
    /\ result[SIG] = "ok"
    /\ AllExited

\* C8: once a worker has returned an error, every other worker exits and the
\* Supervisor returns.
C8_DeadWorkerStopsAll ==
    (\E w \in Workers : result[w] = "err") ~> AllExited

\* the Supervisor takes the result of worker w in this step
Joins(w) == w \notin joined /\ w \in joined'

C10_Monotonic ==
    [][/\ bus.kind \in Terminating => bus'.kind \notin {"RELOAD", "INIT"}
       /\ bus.kind \in {"KILL", "PANICKED"} => bus'.kind # "SHUTDOWN"]_vars

\* C11: whenever RELOAD is on the bus, the shared slot holds the snapshot that
\* RELOAD announced, or the newer one of a reload the handler has stored and
\* not yet published; at the moment RELOAD is published the slot already
\* holds its snapshot. A worker that observes RELOAD and then loads therefore
\* never gets the snapshot the reload replaced.
C11_StoreBeforeReload ==
    /\ [](bus.kind = "RELOAD" =>
            load = IF reloading.publish THEN reloading.new_config ELSE bus.c)
    /\ [][bus' # bus /\ bus'.kind = "RELOAD" => load = bus'.c /\ load' = load]_vars

\* a forwarder in its loop is about to observe a RELOAD, and the slot holds
\* the new snapshot
C11_Witness ==
    /\ bus.kind = "RELOAD"
    /\ udp_pc = "loop"
    /\ unseen[UDP]
    /\ load = bus.c
    /\ load # InitialConfig

\* the handler's SIGHUP branch runs to its end: the signal is taken and the
\* handler is back at its select!, or about to publish
TakesSighup ==
    /\ "SIGHUP" \in pending
    /\ "SIGHUP" \notin pending'
    /\ sig_pc' = "loop"

\* C12: a SIGHUP for which the file holds what was last applied publishes no
\* RELOAD and leaves the published snapshot as it is.
C12_ReloadIdempotent ==
    [][TakesSighup /\ file = applied =>
            /\ UNCHANGED <<bus, unseen, current_config>>
            /\ ~reloading'.publish]_vars

\* the handler leaves a SIGHUP pending without running its SIGHUP branch: it
\* returns from its rx.changed() branch, or it panics
LeavesSighup ==
    /\ "SIGHUP" \in pending
    /\ sig_pc' = "done"
    /\ \/ result'[SIG] = "panic"
       \/ closed
       \/ unseen[SIG] /\ bus.kind \in {"STOP", "PANICKED"}

\* the handler leaves its loop without taking a signal: it returns from its
\* rx.changed() branch, or it panics
LeavesLoop ==
    /\ sig_pc = "loop"
    /\ sig_pc' = "done"
    /\ bus' = bus
    /\ \/ result'[SIG] = "panic"
       \/ closed
       \/ unseen[SIG] /\ bus.kind \in {"STOP", "PANICKED"}

\* C13: a SIGHUP taken while the file cannot be read or parsed leaves the
\* snapshot, the bus and both forwarders as they were, publishes nothing, and
\* leaves the handler at its select!, where it takes the next signal.
C13_FailedReloadKeeps ==
    [][("SIGHUP" \in pending /\ "SIGHUP" \notin pending' /\ file.kind # "json") =>
            \/ LeavesSighup
            \/ /\ UNCHANGED <<bus, unseen, current_config, udpVars, tcpVars, result>>
               /\ AtSelect']_vars

\* a SIGHUP was taken while the configuration path held no file; the snapshot
\* is the one of startup, nothing was published, the handler and a forwarder
\* are in their loops
C13_Witness ==
    /\ nsignals = 1
    /\ pending = {}
    /\ file = NoFile
    /\ AtSelect
    /\ bus = INIT(InitialConfig)
    /\ load = InitialConfig
    /\ udp_pc = "loop"
    /\ udp_map = InitialConfig.udp_map

\* forwarder f, in its loop, takes a RELOAD that carries port_changed from the bus
ProcessesPortChange(f) ==
    /\ pcOf[f] = "loop"
    /\ unseen[f]
    /\ ~unseen'[f]
    /\ bus.kind = "RELOAD"
    /\ bus.port_changed
    /\ result'[f] = "running"

\* the socket was to be rebuilt and the forwarder got no new socket
RebuildFailed(port, new) ==
    /\ port # bus.c.port
    /\ new = NoSocket

\* the socket takes the traffic sent to port p and to no other port
ListensOnly(sock, p) == \A lp \in ListenPorts : Accepts(sock, lp) <=> lp = p

\* C14: the socket a forwarder in its loop receives from is bound to its
\* current port only; a forwarder that takes a RELOAD(true) whose socket
\* rebuild does not fail has, at the end of that step, a socket bound to the
\* new port only (the one it had, or a new one), and the step that ends the
\* processing makes the new socket and the new port the forwarder's own.
C14_PortChangeRebinds ==
    /\ [](/\ udp_pc = "loop" => ListensOnly(udp_fd, udp_port)
          /\ tcp_pc = "loop" => ListensOnly(listener, tcp_port))
    /\ [][/\ ProcessesPortChange(UDP) /\ ~RebuildFailed(udp_port, udp_f') =>
                IF udp_port = bus.c.port
                THEN ListensOnly(udp_fd', bus.c.port) /\ udp_f' = NoSocket
                ELSE ListensOnly(udp_f', bus.c.port)
          /\ ProcessesPortChange(TCP) /\ ~RebuildFailed(tcp_port, tcp_l') =>
                IF tcp_port = bus.c.port
                THEN ListensOnly(listener', bus.c.port) /\ tcp_l' = NoSocket
                ELSE ListensOnly(tcp_l', bus.c.port)
          /\ udp_f # NoSocket /\ udp_f' = NoSocket /\ udp_pc' = "loop" =>
                udp_fd' = udp_f /\ udp_port' = udp_f.port
          /\ tcp_l # NoSocket /\ tcp_l' = NoSocket /\ tcp_pc' = "loop" =>
                listener' = tcp_l /\ tcp_port' = tcp_l.port]_vars

\* after a port-changing reload both forwarders have rebuilt their sockets:
\* they listen on the new port and no longer on the port they started on
C14_Witness ==
    /\ bus.kind = "RELOAD"
    /\ bus.port_changed
    /\ \A f \in Forwarders : pcOf[f] = "loop" /\ ~unseen[f]
    /\ udp_f = NoSocket /\ tcp_l = NoSocket
    /\ Accepts(udp_fd, bus.c.port) /\ ~Accepts(udp_fd, InitialConfig.port)
    /\ Accepts(listener, bus.c.port) /\ ~Accepts(listener, InitialConfig.port)

\* forwarder f, in its loop, takes a RELOAD for another port than its own
ProcessesRebuild(f, port) ==
    /\ pcOf[f] = "loop"
    /\ unseen[f]
    /\ ~unseen'[f]
    /\ bus.kind = "RELOAD"
    /\ bus.c.port # port
    /\ result'[f] = "running"

\* C15: a forwarder that processes a port-changing RELOAD and does not get
\* the new socket stays in its loop with its old socket and port, still
\* taking the traffic for the old port; it does not return, and nothing is
\* published for it.
C15_FailedRebuildKeepsOld ==
    [][/\ ProcessesRebuild(UDP, udp_port) /\ udp_f' = NoSocket =>
            /\ udp_pc' = "loop"
            /\ udp_fd' = udp_fd /\ udp_port' = udp_port
            /\ Accepts(udp_fd', udp_port)
            /\ UNCHANGED <<bus, result, transitioned>>
       /\ ProcessesRebuild(TCP, tcp_port) /\ tcp_l' = NoSocket =>
            /\ tcp_pc' = "loop"
            /\ listener' = listener /\ tcp_port' = tcp_port
            /\ Accepts(listener', tcp_port)
            /\ UNCHANGED <<bus, result, transitioned>>]_vars

\* both forwarders have processed a port-changing RELOAD without getting a
\* new socket: they are in their loops on the port they started on
C15_Witness ==
    /\ bus.kind = "RELOAD"
    /\ bus.port_changed
    /\ \A f \in Forwarders : pcOf[f] = "loop" /\ ~unseen[f] /\ result[f] = "running"
    /\ udp_f = NoSocket /\ tcp_l = NoSocket
    /\ Accepts(udp_fd, InitialConfig.port) /\ udp_port # bus.c.port
    /\ Accepts(listener, InitialConfig.port) /\ tcp_port # bus.c.port
    /\ ~transitioned

\* C16: SIGINT and SIGTERM make the handler publish SHUTDOWN and exit,
\* SIGQUIT makes it publish KILL and exit, SIGHUP leaves it in its loop
\* (publishing RELOAD or nothing); SHUTDOWN and KILL are published only by the
\* step in which the handler exits, and once it has exited it stays exited
\* and the only actions that still reach the bus are the Supervisor's.
C16_SignalMapping ==
    [][/\ \A s \in {"SIGINT", "SIGTERM"} :
            s \in pending /\ s \notin pending' =>
                \/ LeavesLoop
                \/ bus' = SHUTDOWN /\ unseen'[UDP] = Subscribed(UDP, pcOf)
                     /\ sig_pc' = "done" /\ result'[SIG] = "ok"
       /\ "SIGQUIT" \in pending /\ "SIGQUIT" \notin pending' =>
                \/ LeavesLoop
                \/ bus' = KILL /\ unseen'[UDP] = Subscribed(UDP, pcOf)
                     /\ sig_pc' = "done" /\ result'[SIG] = "ok"
       /\ "SIGHUP" \in pending /\ "SIGHUP" \notin pending' =>
                \/ LeavesLoop
                \/ bus' = bus /\ sig_pc' = "loop"
       /\ bus' # bus /\ bus'.kind = "RELOAD" => sig_pc = "loop" /\ sig_pc' = "loop"
       /\ bus' # bus /\ bus'.kind \in {"SHUTDOWN", "KILL"} => sig_pc = "loop" /\ sig_pc' = "done"
       /\ sig_pc = "done" =>
            sig_pc' = "done" /\ (bus' # bus => bus'.kind \in {"STOP", "PANICKED"})]_vars

\* the handler has published SHUTDOWN and returned while a forwarder, still
\* in its loop, has yet to observe it
C16_Witness ==
    /\ sig_pc = "done"
    /\ result[SIG] = "ok"
    /\ bus = SHUTDOWN
    /\ udp_pc = "loop"
    /\ unseen[UDP]

\* C17: once the Supervisor has published STOP or PANICKED the signal handler
\* exits.
C17_HandlerSeesStop == transitioned ~> (sig_pc = "done")

\* C18: main returns from its join loop only when all three workers have
\* exited and their results are taken, and it then returns SUCCESS, whatever
\* the workers' results were.
C18_ReturnsAfterAllExit ==
    /\ []((sup_pc = "done" /\ sig_pc # "none") =>
            /\ exit_code = "SUCCESS"
            /\ \A w \in Workers : pcOf[w] = "done" /\ result[w] # "running")
    /\ [][(sup_pc = "join" /\ sup_pc' = "done") =>
            /\ joined = Workers
            /\ \A w \in Workers : result[w] # "running"
            /\ exit_code' = "SUCCESS"]_vars

\* main has returned SUCCESS after one worker returned an error and another
\* panicked
C18_Witness ==
    /\ sup_pc = "done"
    /\ exit_code = "SUCCESS"
    /\ \E w \in Workers : result[w] = "err"
    /\ \E w \in Workers : result[w] = "panic"

\* nothing is spawned and no socket is open
NothingStarted ==
    /\ \A w \in Workers : pcOf[w] = "none" /\ result[w] = "running"
    /\ udp_fd = NoSocket
    /\ listener = NoSocket
    /\ udp_tasks = EmptyBag
    /\ tcp_tasks = EmptyBag

\* C19: a run that returns FAILURE has spawned no worker and opened no
\* socket, and it stays that way; a run whose configuration path holds no
\* readable file returns FAILURE.
C19_StartupFailure ==
    /\ [](exit_code = "FAILURE" => sup_pc = "done" /\ NothingStarted)
    /\ []((sup_pc # "startup" /\ applied = NoFile) => exit_code = "FAILURE")
    /\ [][sup_pc = "startup" /\ file = NoFile => exit_code' = "FAILURE"]_vars

\* main has returned FAILURE although the configuration file is readable:
\* another startup check failed
C19_Witness ==
    /\ exit_code = "FAILURE"
    /\ file.kind = "json"
    /\ NothingStarted

\* a running relay task that stands at its lookup for a port the map has no
\* entry for
LookupMisses(t, map) == t.pc = "lookup" /\ t.odp # 0 /\ t.odp \notin DOMAIN map

\* when a task of the kind t leaves the set tasks for tasks2, it has ended
\* at the lookup (or was aborted, or dropped with the forwarder), and no task
\* has appeared at a step past the lookup
EndsAtLookup(t, tasks, tasks2) ==
    CopiesIn(t, tasks2) < CopiesIn(t, tasks) =>
        /\ \/ CopiesIn(Ended("unmapped"), tasks2) = CopiesIn(Ended("unmapped"), tasks) + 1
           \/ CopiesIn(Ended("cancelled"), tasks2) > CopiesIn(Ended("cancelled"), tasks)
           \/ tasks2 = EmptyBag
        /\ \A u \in Running(tasks2) : u.pc # "lookup" => CopiesIn(u, tasks2) <= CopiesIn(u, tasks)

\* C20: a relay task whose original destination port is not a key of its
\* map ends at the lookup: it never gets to bind, connect, send_to or a
\* write to the client.
C20_UnmappedDropped ==
    [][/\ \A t \in Running(udp_tasks) :
            LookupMisses(t, udp_map) => EndsAtLookup(t, udp_tasks, udp_tasks')
       /\ \A t \in Running(tcp_tasks) :
            LookupMisses(t, tcp_map) => EndsAtLookup(t, tcp_tasks, tcp_tasks')]_vars

\* a relay task has ended at its lookup for want of an upstream
C20_Witness ==
    \/ BagIn(Ended("unmapped"), udp_tasks) /\ udp_pc = "loop"
    \/ BagIn(Ended("unmapped"), tcp_tasks) /\ tcp_pc = "loop"

\* what the next recvmsg on the socket finds is no well-formed datagram:
\* nothing is queued, or the head of the queue has no source address, the
\* unspecified source address, no original-destination control message, or
\* one that does not fit the control buffer
NotForwardable(sock) ==
    \/ sock.queue = <<>>
    \/ Head(sock.queue).src \in {NoAddress, Unspecified}
    \/ Head(sock.queue).cmsg # "present"

\* C21: a receive that finds no datagram, or one without a specified source
\* address or without its original-destination control message, yields
\* nothing, and the forwarder spawns no relay task in that iteration.
C21_OnlyWellFormedRelayed ==
    [][udp_forwarder_readable /\ NotForwardable(udp_fd) =>
            /\ ~recvfrom_cmsg(udp_fd).some
            /\ udp_tasks' \sqsubseteq udp_tasks]_vars

\* a relay task of the set returns on an error in this step: at the lookup
\* for want of an upstream, or where a step failed or timed out
TaskFails(tasks, tasks2) ==
    \E how \in {"unmapped", "failed"} :
        CopiesIn(Ended(how), tasks2) > CopiesIn(Ended(how), tasks)

\* C22: a relay task that ends on an error leaves its forwarder in the loop,
\* running, with the socket and port it had, still taking the traffic for
\* that port; a forwarder leaves its loop only on an Action Bus change, on
\* the channel closing or by panicking (never on an accept or readiness
\* error), and once in its loop it never returns an error.
C22_ErrorsStayLocal ==
    [][/\ udp_pc = "loop" /\ TaskFails(udp_tasks, udp_tasks') =>
            /\ udp_pc' = "loop" /\ result'[UDP] = "running"
            /\ udp_fd' = udp_fd /\ udp_port' = udp_port
            /\ Accepts(udp_fd', udp_port)
       /\ tcp_pc = "loop" /\ TaskFails(tcp_tasks, tcp_tasks') =>
            /\ tcp_pc' = "loop" /\ result'[TCP] = "running"
            /\ listener' = listener /\ tcp_port' = tcp_port
            /\ Accepts(listener', tcp_port)
       /\ udp_pc = "loop" /\ udp_pc' # "loop" =>
            unseen[UDP] \/ closed \/ result'[UDP] = "panic"
       /\ tcp_pc = "loop" /\ tcp_pc' # "loop" =>
            unseen[TCP] \/ closed \/ result'[TCP] = "panic"
       /\ \A f \in Forwarders :
            result[f] # "err" /\ result'[f] = "err" => pcOf[f] = "start"]_vars

\* a UDP relay task has returned where a step failed; its forwarder is in
\* its loop, with the permit back, and a later datagram is queued on its socket
C22_Witness ==
    /\ udp_pc = "loop"
    /\ result[UDP] = "running"
    /\ BagIn(Ended("failed"), udp_tasks)
    /\ semaphore = CONN_BACKLOG
    /\ Accepts(udp_fd, udp_port)
    /\ udp_fd.queue # <<>>

\* the task records at step pc that the set has more of after the step
Arrived(pc, tasks, tasks2) ==
    {t \in Running(tasks2) : t.pc = pc /\ CopiesIn(t, tasks2) > CopiesIn(t, tasks)}

\* the task records at step pc that the set has fewer of after the step
Left(pc, tasks, tasks2) ==
    {t \in Running(tasks) : t.pc = pc /\ CopiesIn(t, tasks2) < CopiesIn(t, tasks)}

\* C23: the relay task spawned for a datagram holds exactly the datagram's
\* payload, with its source and original destination port; the upstream it
\* sends the packet to is the one the map gives for that port; the reply it
\* sends to src, from the original destination, is exactly the datagram that
\* reached its upstream socket; without such a datagram it never gets to the
\* reply.
C23_UdpRoundTrip ==
    [][/\ \A t \in Arrived("lookup", udp_tasks, udp_tasks') :
            /\ udp_fd.queue # <<>>
            /\ t.packet = Head(udp_fd.queue).payload
            /\ t.src = Head(udp_fd.queue).src
            /\ t.odp = Head(udp_fd.queue).odp
       /\ \A t \in Arrived("bind", udp_tasks, udp_tasks') :
            /\ t.odp \in DOMAIN udp_map
            /\ t.proxy = udp_map[t.odp]
       /\ \A t \in Arrived("reply", udp_tasks, udp_tasks') :
            \E u \in Left("recv", udp_tasks, udp_tasks') :
                /\ u.inbox # <<>>
                /\ t = [u EXCEPT !.pc = "reply", !.inbox = <<>>, !.reply = Head(u.inbox)]
       /\ \A u \in Left("recv", udp_tasks, udp_tasks') :
            u.inbox = <<>> =>
                \/ Arrived("recv", udp_tasks, udp_tasks') # {}
                \/ Arrived("reply", udp_tasks, udp_tasks') = {}]_vars

\* the step of the TCP relay that comes before, and after, step pc
Before(pc) ==
    CASE pc = "connect" -> "lookup"
      [] pc = "read"    -> "connect"
      [] pc = "write"   -> "read"
      [] pc = "upread"  -> "write"
      [] pc = "reply"   -> "upread"
      [] OTHER          -> "none"

After(pc) ==
    CASE pc = "lookup"  -> "connect"
      [] pc = "connect" -> "read"
      [] pc = "read"    -> "write"
      [] pc = "write"   -> "upread"
      [] pc = "upread"  -> "reply"
      [] OTHER          -> "none"

\* C24: a TCP relay task goes through lookup, connect, client read, upstream
\* write, upstream read, client write in this order, each at most once: a
\* task comes to a step only from the step before it, carrying what it
\* read, and a task that leaves a step goes to the next one or ends, with
\* nothing after the client write; what it read from the client and from
\* the upstream is at most BUFFER_SIZE bytes each; a task starts at the
\* lookup only by being spawned.
C24_TcpSingleExchange ==
    /\ [](\A t \in BagToSet(tcp_tasks) :
             Len(t.packet) <= BUFFER_SIZE /\ Len(t.reply) <= BUFFER_SIZE)
    /\ [][/\ \A pc \in TcpSteps \ {"lookup"} :
                \A t \in Arrived(pc, tcp_tasks, tcp_tasks') :
                    \E u \in Left(Before(pc), tcp_tasks, tcp_tasks') :
                        /\ t.odp = u.odp /\ t.src = u.src
                        /\ pc # "connect" => t.proxy = u.proxy
                        /\ pc # "write" => t.packet = u.packet
                        /\ pc # "reply" => t.reply = u.reply
          /\ \A pc \in TcpSteps :
                Left(pc, tcp_tasks, tcp_tasks') # {} =>
                    \A q \in TcpSteps :
                        Arrived(q, tcp_tasks, tcp_tasks') # {} => q = After(pc)
          /\ Arrived("lookup", tcp_tasks, tcp_tasks') # {} =>
                tcp_pc = "loop" /\ Running(tcp_tasks) \subseteq Running(tcp_tasks')]_vars

\* a TCP relay task stands at its write to the client, holding a buffer
\* full of request and a buffer full of reply
C24_Witness ==
    /\ tcp_pc = "loop"
    /\ \E t \in Running(tcp_tasks) :
          /\ t.pc = "reply"
          /\ Len(t.packet) = BUFFER_SIZE
          /\ Len(t.reply) = BUFFER_SIZE

\* C25: the upstream a relay task gets from its lookup is the one that the
\* map held for its port when the task was dispatched, whatever RELOAD the
\* forwarder has processed since; a task ends for want of an upstream only
\* if the map had none for its port when it was dispatched.
C25_DispatchSnapshot ==
    [][/\ \A t \in Arrived("bind", udp_tasks, udp_tasks') :
            t.proxy = get(t.dispatched, t.odp)
       /\ \A t \in Arrived("connect", tcp_tasks, tcp_tasks') :
            t.proxy = get(t.dispatched, t.odp)
       /\ \A u \in Left("lookup", udp_tasks, udp_tasks') :
            u.odp \in DOMAIN u.dispatched =>
                CopiesIn(Ended("unmapped"), udp_tasks') <= CopiesIn(Ended("unmapped"), udp_tasks)
       /\ \A u \in Left("lookup", tcp_tasks, tcp_tasks') :
            u.odp \in DOMAIN u.dispatched =>
                CopiesIn(Ended("unmapped"), tcp_tasks') <= CopiesIn(Ended("unmapped"), tcp_tasks)]_vars


\* the sockets of a forwarder that are open: the one it receives from and the
\* one a rebuild has created
Live(sock, new) == {k \in {"listen", "new"} : (IF k = "listen" THEN sock ELSE new) # NoSocket}

\* C26: while a forwarder is in its main loop it has exactly one live listen
\* socket, bound to its current port with IP_TRANSPARENT set (and
\* IP_RECVORIGDSTADDR for UDP); the old and the new socket of a port-changing
\* RELOAD are never both live.
C26_OneListenSocket ==
    /\ udp_pc = "loop" =>
            /\ Live(udp_fd, udp_f) = {"listen"}
            /\ udp_fd.port = udp_port
            /\ udp_fd.opts = {"IP_TRANSPARENT", "IP_RECVORIGDSTADDR"}
    /\ tcp_pc = "loop" =>
            /\ Live(listener, tcp_l) = {"listen"}
            /\ listener.port = tcp_port
            /\ "IP_TRANSPARENT" \in listener.opts


\* C27: the runtime configuration is a function of the file's contents, entries
\* sharing an orig_port included: the published snapshot is the one snapshot
\* that converting the applied file yields.
C27_ConversionDeterministic ==
    applied.kind = "json" => RuntimeConfigsFrom(applied.cfg) = {current_config}


\* C28: a forwarder at its select! with an unobserved bus change and a ready
\* socket handles the bus change first: it takes neither a datagram nor a
\* connection while a bus change (a terminating action included) waits.
C28_BusBeforeTraffic ==
    [][/\ unseen[UDP] /\ UdpAtSelect => ~udp_forwarder_readable
       /\ unseen[TCP] /\ TcpAtSelect => ~tcp_forwarder_accept]_vars


\* C29: the flag of a published RELOAD says whether the listen port of the
\* snapshot published immediately before the swap differs from the new
\* snapshot's, and a RELOAD is published exactly when the two snapshots differ:
\* a SIGHUP step swaps the snapshot and goes on to publish iff it read a
\* snapshot other than the published one, and the RELOAD then put on the bus
\* carries the snapshot just stored and the flag of that comparison.
C29_ReloadFlag ==
    [][/\ TakesSighup =>
            /\ reloading'.publish = (current_config' # current_config)
            /\ reloading'.publish =>
                    /\ reloading'.new_config = current_config'
                    /\ reloading'.port_changed = (current_config.port # current_config'.port)
       /\ bus' # bus /\ bus'.kind = "RELOAD" =>
            /\ reloading.publish
            /\ bus' = RELOAD(reloading.port_changed, current_config)
            /\ bus.kind \in {"INIT", "RELOAD"} =>
                    /\ bus'.c # bus.c
                    /\ bus'.port_changed = (bus.c.port # bus'.c.port)]_vars

\* a RELOAD whose flag is false is on the bus: the new snapshot has the port
\* of the one before and other maps
C29_Witness ==
    /\ bus.kind = "RELOAD"
    /\ ~bus.port_changed
    /\ bus.c.port = InitialConfig.port
    /\ bus.c # InitialConfig


\* forwarder f has processed the value the bus holds, a RELOAD, to the end,
\* and its last rebuild did not fail
Settled(f, new) ==
    /\ pcOf[f] = "loop"
    /\ bus.kind = "RELOAD"
    /\ ~unseen[f]
    /\ new = NoSocket
    /\ ~rebuild_err[f]

\* the snapshot published with the RELOAD on the bus has listen port p; it
\* is the stored snapshot unless the handler is between its store and its
\* send_replace
PublishedPort(p) ==
    /\ bus.c.port = p
    /\ ~reloading.publish => current_config.port = p

\* C30: coalescing on the bus loses no port change: a forwarder that has
\* processed the latest bus value, with no rebuild failed, has the listen
\* port of the published snapshot and listens on it, also when the RELOAD
\* that changed the port was overwritten before the forwarder observed it.
C30_PortChangeNotLost ==
    /\ Settled(UDP, udp_f) => PublishedPort(udp_port) /\ Accepts(udp_fd, udp_port)
    /\ Settled(TCP, tcp_l) => PublishedPort(tcp_port) /\ Accepts(listener, tcp_port)

\* two SIGHUPs of which only the first changed the port: the second RELOAD is
\* on the bus with its flag false, and both forwarders have processed it and
\* listen on the new port
C30_Witness ==
    /\ Settled(UDP, udp_f) /\ Settled(TCP, tcp_l)
    /\ nsignals = 2
    /\ ~reloading.publish
    /\ ~bus.port_changed
    /\ bus.c = CHOOSE c \in RuntimeConfigsFrom(BothConfig) : TRUE
    /\ udp_port = bus.c.port /\ udp_port # InitialConfig.port
    /\ udp_map = bus.c.udp_map
    /\ tcp_port = bus.c.port


\* the function of a forwarder returns Ok(()) in this step
Returns(f) == pcOf[f] \in {"start", "loop", "drain"} /\ pcOf'[f] = "done" /\ result'[f] = "ok"

\* C31: when a forwarder function returns, none of the relay tasks it spawned
\* is left running, every permit is back in the semaphore and the forwarder
\* holds no socket; and so it stays once the forwarder is done.
C31_NoTaskOutlivesForwarder ==
    /\ [](/\ udp_pc = "done" =>
                /\ Running(udp_tasks) = {}
                /\ semaphore = CONN_BACKLOG
                /\ udp_fd = NoSocket /\ udp_f = NoSocket
          /\ tcp_pc = "done" =>
                /\ Running(tcp_tasks) = {}
                /\ listener = NoSocket /\ tcp_l = NoSocket)
    /\ [][/\ Returns(UDP) => Running(udp_tasks') = {} /\ semaphore' = CONN_BACKLOG
          /\ Returns(TCP) => Running(tcp_tasks') = {}]_vars

\* a forwarder has left its loop on SHUTDOWN or STOP with a relay task still
\* running and is about to return from its drain
C31_Witness ==
    /\ bus.kind \in {"SHUTDOWN", "STOP"}
    /\ \/ udp_pc = "drain" /\ ~udp_force_kill /\ InFlight(udp_tasks) > 0
       \/ tcp_pc = "drain" /\ ~tcp_force_kill /\ InFlight(tcp_tasks) > 0


\* C32: no TCP relay task stays pending for ever while the forwarder is in
\* its main loop, whatever the peers do: again and again the forwarder has
\* left its loop or has no relay task in flight.
C32_TcpTaskTerminates ==
    []<>(tcp_pc # "loop" \/ InFlight(tcp_tasks) = 0)


\* C33: no datagram waits on the listen socket for a later readiness event:
\* unless the forwarder leaves its loop or finds its queue empty again and
\* again, it keeps taking its readable branch, whether or not further
\* datagrams arrive.
C33_QueuedDatagramReceived ==
    \/ []<>(udp_pc # "loop" \/ udp_fd.queue = <<>>)
    \/ []<><<udp_forwarder_readable>>_vars


\* worker w is polled for the first time, the bus holding one of kinds
StartsUnder(w, kinds) == pcOf[w] = "start" /\ pcOf'[w] # "start" /\ bus.kind \in kinds

\* C34: a forwarder that starts with STOP, PANICKED, KILL or SHUTDOWN on the
\* bus returns Ok at once, having created no socket and spawned no task; the
\* signal handler that starts with STOP or PANICKED on the bus returns Ok at
\* once, takes no signal and publishes nothing.
C34_StartsUnderTermination ==
    [][/\ StartsUnder(UDP, Terminating) =>
            /\ udp_pc' = "done" /\ result'[UDP] = "ok"
            /\ udp_fd' = NoSocket /\ udp_f' = NoSocket
            /\ udp_tasks' = EmptyBag /\ semaphore' = CONN_BACKLOG
            /\ UNCHANGED <<bus, current_config>>
       /\ StartsUnder(TCP, Terminating) =>
            /\ tcp_pc' = "done" /\ result'[TCP] = "ok"
            /\ listener' = NoSocket /\ tcp_l' = NoSocket
            /\ tcp_tasks' = EmptyBag
            /\ UNCHANGED <<bus, current_config>>
       /\ StartsUnder(SIG, {"STOP", "PANICKED"}) =>
            /\ sig_pc' = "done" /\ result'[SIG] = "ok"
            /\ pending' = {}
            /\ UNCHANGED <<bus, current_config, reloading>>]_vars

\* STOP is on the bus because the TCP forwarder failed to start; the signal
\* handler has returned Ok without having taken a signal, and the UDP
\* forwarder is about to be polled for the first time
C34_Witness ==
    /\ bus.kind = "STOP"
    /\ tcp_pc = "done" /\ result[TCP] = "err"
    /\ sig_pc = "done" /\ result[SIG] = "ok" /\ nsignals = 0
    /\ udp_pc = "start"


\* forwarder f, in its loop, takes from the bus an action of kind k that
\* carries its own listen port, and stays in its loop
TakesInPlace(f, k, port) ==
    /\ pcOf[f] = "loop" /\ pcOf'[f] = "loop"
    /\ unseen[f] /\ ~unseen'[f]
    /\ bus.kind = k
    /\ k = "RELOAD" => bus.c.port = port

\* C35: a RELOAD for the port a forwarder already listens on replaces its
\* cached map and nothing else, and an INIT changes nothing: the listen
\* socket, the port, the semaphore and the relay tasks in flight are as before,
\* and no socket is created.
C35_ReloadInPlace ==
    [][/\ \A k \in {"RELOAD", "INIT"} : TakesInPlace(UDP, k, udp_port) =>
            /\ udp_fd' = udp_fd /\ udp_f' = NoSocket /\ udp_port' = udp_port
            /\ semaphore' = semaphore
            /\ RunningBag(udp_tasks') = RunningBag(udp_tasks)
            /\ udp_map' = IF k = "RELOAD" THEN bus.c.udp_map ELSE udp_map
       /\ \A k \in {"RELOAD", "INIT"} : TakesInPlace(TCP, k, tcp_port) =>
            /\ listener' = listener /\ tcp_l' = NoSocket /\ tcp_port' = tcp_port
            /\ RunningBag(tcp_tasks') = RunningBag(tcp_tasks)
            /\ tcp_map' = IF k = "RELOAD" THEN bus.c.tcp_map ELSE tcp_map]_vars

\* the UDP forwarder has processed a RELOAD that kept the port and changed
\* the map, with a relay task in flight
C35_Witness ==
    /\ udp_pc = "loop" /\ ~unseen[UDP] /\ udp_f = NoSocket
    /\ bus.kind = "RELOAD" /\ ~bus.port_changed
    /\ udp_port = InitialConfig.port /\ Accepts(udp_fd, udp_port)
    /\ udp_map = bus.c.udp_map /\ udp_map # InitialConfig.udp_map
    /\ InFlight(udp_tasks) > 0


\* forwarder f is polled for the first time with a configuration on the bus
\* and ends the step without a socket
FailsToBind(f, sock2) ==
    /\ pcOf[f] = "start" /\ pcOf'[f] # "start"
    /\ bus.kind \in {"INIT", "RELOAD"}
    /\ sock2 = NoSocket

\* C36: a forwarder whose first socket creation fails returns the error
\* without entering its loop, spawning a task or holding a socket; a
\* forwarder that has returned an error never was in its loop.
C36_StartupBindFailure ==
    /\ [][/\ FailsToBind(UDP, udp_fd') =>
                /\ udp_pc' = "done" /\ result'[UDP] = "err"
                /\ udp_f' = NoSocket /\ udp_tasks' = EmptyBag /\ semaphore' = CONN_BACKLOG
          /\ FailsToBind(TCP, listener') =>
                /\ tcp_pc' = "done" /\ result'[TCP] = "err"
                /\ tcp_l' = NoSocket /\ tcp_tasks' = EmptyBag]_vars
    /\ [][\A f \in Forwarders : result'[f] = "err" /\ result[f] # "err" => pcOf[f] = "start"]_vars
    /\ [](\A f \in Forwarders : result[f] = "err" => pcOf[f] = "done")

\* the UDP forwarder has returned the error of its first socket creation,
\* and the TCP forwarder is in its loop
C36_Witness ==
    /\ udp_pc = "done" /\ result[UDP] = "err"
    /\ udp_fd = NoSocket /\ udp_tasks = EmptyBag
    /\ tcp_pc = "loop"


\* no two entries of the list share an orig_port
DistinctOrigPorts(entries) ==
    \A a \in entries, b \in entries : a.orig_port = b.orig_port => a = b

\* the ports looked up: every orig_port of a file, and one that no file has
LookedUp == {e.orig_port : e \in UNION {c.udp \cup c.tcp : c \in FileConfigs}} \cup {0}

\* what a lookup of port p must return for the entry list
Redirect(entries, p) ==
    IF \E e \in entries : e.orig_port = p
    THEN LET e == CHOOSE x \in entries : x.orig_port = p
         IN  <<e.upstream_ip, e.upstream_port>>
    ELSE NoUpstream

\* C37: the snapshot built from a file whose udp and tcp lists have distinct
\* orig_ports has the file's listen port; its UDP map returns, for a port,
\* the upstream of the udp entry with that orig_port and nothing for a port
\* no udp entry has, and its TCP map does the same for the tcp entries.
C37_MapsFollowFile ==
    /\ applied.kind = "json"
    /\ DistinctOrigPorts(applied.cfg.udp)
    /\ DistinctOrigPorts(applied.cfg.tcp)
    => /\ current_config.port = applied.cfg.port
       /\ \A p \in LookedUp :
            /\ get(current_config.udp_map, p) = Redirect(applied.cfg.udp, p)
            /\ get(current_config.tcp_map, p) = Redirect(applied.cfg.tcp, p)

\* the handler has built the snapshot of a file whose two lists differ: port
\* 1 is redirected for UDP only and port 2 for TCP only
C37_Witness ==
    /\ applied = File("json", SplitConfig)
    /\ sig_pc = "loop" /\ pending = {}
    /\ get(current_config.udp_map, 1) = <<1, 1>>
    /\ get(current_config.udp_map, 2) = NoUpstream
    /\ get(current_config.tcp_map, 2) = <<2, 2>>
    /\ get(current_config.tcp_map, 1) = NoUpstream


\* C38: read_config reports NotFound for a path that does not exist,
\* InvalidInput for an existing path that is not a regular file, InvalidData
\* for a file whose content is no configuration, and the parsed
\* configuration for a file that holds one; a path that does not exist is
\* reported as NotFound although it is no regular file either, and a
\* directory as InvalidInput although it holds no configuration.
C38_ReadConfigClassifies ==
    LET r == read_config(file)
    IN  /\ file.kind = "absent" => r.err = "NotFound"
        /\ file.kind = "dir" => r.err = "InvalidInput"
        /\ file.kind = "garbage" => r.err = "InvalidData"
        /\ file.kind = "json" => r.err = "" /\ r.cfg = file.cfg
        /\ r.err = "" => file.kind = "json"

\* the handler has taken a SIGHUP while the path held a file that is no
\* configuration, and kept what it had applied
C38_Witness ==
    /\ file = Garbage
    /\ nsignals > 0 /\ pending = {} /\ sig_pc = "loop"
    /\ applied.kind = "json"
    /\ read_config(file).err = "InvalidData"


\* the capability numbers of the two bitmaps
Caps == 0 .. 63

\* bit cap of the pair of bitmaps is set
Effective(data, cap) == (cap % 32) \in data[IF cap <= 31 THEN 1 ELSE 2]

\* C39: for every capability number of the two bitmaps, cap_to_index is 0 up
\* to 31 and 1 above, and cap_to_mask is the 32-bit value with bit
\* cap mod 32 alone set; the probe reports capable exactly when the bits of
\* CAP_NET_ADMIN and of CAP_NET_BIND_SERVICE are both set in the bitmaps it
\* read, which are the process's effective set when capget succeeded; and
\* main goes on to spawn its workers only if the probe reported capable.
C39_CapabilityProbe ==
    /\ \A cap \in Caps :
          /\ cap_to_index(cap) = (IF cap <= 31 THEN 0 ELSE 1)
          /\ cap_to_mask(cap) = {cap % 32}
    /\ probe.ran =>
          /\ probe.capable <=> /\ Effective(probe.data, CAP_NET_ADMIN)
                                /\ Effective(probe.data, CAP_NET_BIND_SERVICE)
          /\ probe.ret = 0 => probe.data = effective
    /\ sup_pc = "join" => probe.ran /\ probe.capable

\* the probe has run on a process that holds every capability but
\* CAP_NET_ADMIN, and main has returned FAILURE
C39_Witness ==
    /\ probe.ran /\ probe.ret = 0 /\ ~probe.capable
    /\ Effective(probe.data, CAP_NET_BIND_SERVICE)
    /\ Effective(probe.data, CAP_NET_ADMIN + 32)
    /\ ~Effective(probe.data, CAP_NET_ADMIN)
    /\ exit_code = "FAILURE"

====
